---- MODULE Spec2Model ----
(***************************************************************************)
(* Credit-metered PDF operations of javari-pdf.                            *)
(*                                                                         *)
(* The model covers the four paid-operation POST dispatchers               *)
(* (pdf-operations, pdf-signatures, pdf-forms, pdf-conversions), the       *)
(* ledger helpers of lib/supabase-client.ts (checkUserCredits,             *)
(* deductCreditsAtomic) and the POST /credits/deduct route.  Every await   *)
(* on the datastore is one step, so requests of different processes        *)
(* interleave between their datastore calls.                               *)
(*                                                                         *)
(* The routes name the credit column of user_credits `balance`, the        *)
(* library and /credits/deduct name it `credits`; the model keeps one      *)
(* credit amount per user_credits row.                                     *)
(***************************************************************************)
EXTENDS Integers, Sequences, FiniteSets, TLC

\* ------------------------------------------------------------------ bounds
MaxBalance == 3
MaxAmount == 2
\* page utilities: the longest expression and the largest document
MaxLen == 5
MaxPages == 2
\* rotate: the largest document
MaxRotatePages == 4
\* certificates: the number of add_certificate calls
MaxIssued == 2
\* editor: elements in a document, clock readings, AI sections, pages
MaxElements == 2
MaxClock == 1
MaxSections == 2
MaxDocPages == 2

\* ------------------------------------------------------------ static data
Procs == {"p1", "p2"}
Users == {"u1"}
NoUser == ""

OperationsCosts ==
  [merge |-> 2, split |-> 2, rotate |-> 1, compress |-> 3, watermark |-> 2,
   protect |-> 2, unlock |-> 3, extract_pages |-> 1, add_page_numbers |-> 1,
   delete_pages |-> 1, reorder_pages |-> 1]

SignatureCosts ==
  [sign |-> 3, add_initials |-> 2, add_date_stamp |-> 1,
   add_certificate |-> 5, verify |-> 1]

\* fill priced as flatten
FormCosts_FillTwo ==
  [fill |-> 2, create |-> 5, flatten |-> 2, extract_fields |-> 1]

FormCosts ==
  [fill |-> 3, create |-> 5, flatten |-> 2, extract_fields |-> 1]

ConversionCosts ==
  ("images-to-pdf" :> 2) @@ ("html-to-pdf" :> 3) @@
  ("markdown-to-pdf" :> 2) @@ ("text-to-pdf" :> 1)

Routes == {"pdf-operations", "pdf-signatures", "pdf-forms", "pdf-conversions"}

CREDIT_COSTS(route) ==
  CASE route = "pdf-operations"  -> OperationsCosts
    [] route = "pdf-signatures"  -> SignatureCosts
    [] route = "pdf-forms"       -> FormCosts
    [] route = "pdf-conversions" -> ConversionCosts

\* the case labels of each dispatcher's switch
OperationsHandlers ==
  {"merge", "split", "rotate", "compress", "watermark", "extract_pages",
   "add_page_numbers", "delete_pages", "reorder_pages"}

SignatureHandlers ==
  {"sign", "add_initials", "add_date_stamp", "add_certificate", "verify"}

FormHandlers == {"fill", "create", "flatten", "extract_fields"}

ConversionHandlers ==
  {"images-to-pdf", "markdown-to-pdf", "text-to-pdf", "html-to-pdf"}

HANDLERS(route) ==
  CASE route = "pdf-operations"  -> OperationsHandlers
    [] route = "pdf-signatures"  -> SignatureHandlers
    [] route = "pdf-forms"       -> FormHandlers
    [] route = "pdf-conversions" -> ConversionHandlers

\* ------------------------------------------------- JavaScript value helpers
\* CREDIT_COSTS is an object literal: a property read finds the table's own
\* keys and, for every other name, what Object.prototype provides.
ObjectPrototypeKeys == {"constructor", "toString", "hasOwnProperty", "valueOf"}

Undefined == [t |-> "undefined", n |-> 0]
FunctionValue == [t |-> "function", n |-> 0]
Num(n) == [t |-> "number", n |-> n]

\* CREDIT_COSTS[operation]
Lookup(table, name) ==
  IF name \in DOMAIN table THEN Num(table[name])
  ELSE IF name \in ObjectPrototypeKeys THEN FunctionValue
  ELSE Undefined

\* ToBoolean(v)
Truthy(v) == v.t = "function" \/ (v.t = "number" /\ v.n # 0)

\* the comparison lost: no balance is ever too low
JsLess_Never(balance, v) == FALSE

\* balance < cost, with a non-numeric cost converting to NaN
JsLess(balance, v) == v.t = "number" /\ balance < v.n

\* the guard `!operation || !CREDIT_COSTS[operation]`
InvalidOperation(route, op) ==
  op = "" \/ ~Truthy(Lookup(CREDIT_COSTS(route), op))

\* ------------------------------------------------------------ authentication
NoHeader == [present |-> FALSE, prefix |-> "", token |-> ""]
Header(prefix, token) == [present |-> TRUE, prefix |-> prefix, token |-> token]

\* the scheme of the header not looked at
StartsWithBearer_AnyScheme(hdr) == hdr.present

\* authHeader?.startsWith('Bearer ')
StartsWithBearer(hdr) == hdr.present /\ hdr.prefix = "Bearer "

\* supabase.auth.getUser(token): the user of a valid token, NoUser otherwise
TokenUser == [tok_u1 |-> "u1"]
GetUser(token) == IF token \in DOMAIN TokenUser THEN TokenUser[token] ELSE NoUser

\* ----------------------------------------------------------------- requests
Headers ==
  {NoHeader, Header("Basic ", "tok_u1"), Header("Bearer ", "tok_bad"),
   Header("Bearer ", "tok_u1")}

\* operation names a request may carry: "" is a missing parameter
RouteOps(route) ==
  CASE route = "pdf-operations"  -> {"merge", "protect"}
    [] route = "pdf-signatures"  -> {"sign"}
    [] route = "pdf-forms"       -> {"extract_fields"}
    [] route = "pdf-conversions" -> {"text-to-pdf"}

OtherNames == {"", "bogus", "constructor"}

\* a request: the fields a kind of request does not carry keep these values
Req(kind) ==
  [kind |-> kind, route |-> "", op |-> "", payload |-> "ok", hdr |-> NoHeader,
   user_id |-> NoUser, amount |-> 0,
   sig |-> "", etype |-> "", event |-> "", price |-> ""]

\* POST ?operation=o on a dispatcher; the Authorization header is drawn where
\* the dispatcher reads it (Authenticate)
DispatchRequests ==
  {[Req("dispatch") EXCEPT !.route = r, !.op = o] :
      r \in Routes, o \in RouteOps("pdf-operations") \cup RouteOps("pdf-signatures")
                          \cup RouteOps("pdf-forms") \cup RouteOps("pdf-conversions")
                          \cup OtherNames}

\* amounts a caller may pass as the cost of a settle
Amounts == {-1} \cup (0..MaxAmount)

\* calls of deductCreditsAtomic(userId, amount, reason)
SettleRequests ==
  {[Req("settle") EXCEPT !.user_id = u, !.amount = a] : u \in Users, a \in Amounts}

\* the Authorization header a caller of /credits/deduct may send
DeductHeaders == {NoHeader, Header("Bearer ", "tok_u1")}

\* POST /credits/deduct with body {user_id, amount, reason}; NoUser is a body
\* without user_id
DeductRequests ==
  {[Req("deduct") EXCEPT !.user_id = u, !.amount = a, !.hdr = h] :
      u \in Users \cup {NoUser}, a \in Amounts, h \in DeductHeaders}

\* Stripe price ids of the credit packages
CREDIT_PACKAGES ==
  [price_starter |-> 100, price_pro |-> 500, price_business |-> 2000,
   price_enterprise |-> 10000]

\* the metadata {user_id, price_id} a checkout session may carry
SessionMetadata ==
  {<<"u1", "price_starter">>, <<"u1", "price_bogus">>, <<NoUser, "price_starter">>}

EventTypes == {"checkout.session.completed", "payment_intent.succeeded"}

EventIds == {"evt_1", "evt_2"}

\* deliveries of a Stripe event to the webhook; the stripe-signature header is
\* drawn where the webhook reads it (WebhookVerify)
WebhookRequests ==
  {[Req("webhook") EXCEPT !.etype = t, !.event = e,
                          !.user_id = m[1], !.price = m[2]] :
      t \in EventTypes, e \in EventIds, m \in SessionMetadata}

Requests ==
  {q \in DispatchRequests : q.op \in RouteOps(q.route) \cup OtherNames}
    \cup SettleRequests \cup DeductRequests \cup WebhookRequests

\* -------------------------------------------------------------------- state
VARIABLES
  user_credits,   \* table user_credits: per user, whether a row exists and its credits
  transactions,   \* table credit_transactions, in insertion order
  pc,             \* per process: the await the request is at
  req,            \* per process: the request being served
  user,           \* per process: the authenticated user
  cur,            \* per process: the balance the request read
  resp,           \* per process: the response or return value
  hist,           \* per process: what the request has done so far
  pre,            \* per process: the stored balance and log length when the request started
  initial,        \* per user: the balance stored before any request ran
  calc            \* a call of one of the page utilities: its arguments and result

\* the variables the ledger's requests never write
aux == <<initial, calc>>

vars == <<user_credits, transactions, pc, req, user, cur, resp, hist, pre, aux>>

NoRequest == Req("none")

\* no page utility is being called
NoCalc == [fn |-> "none"]

NoResponse ==
  [status |-> 0, body |-> "none", required |-> 0, available |-> 0,
   creditsUsed |-> 0, success |-> FALSE, remaining |-> 0]

NoHist ==
  [authOk |-> FALSE, balRead |-> FALSE, checkOk |-> FALSE,
   handlerRan |-> FALSE, handlerOk |-> FALSE,
   deductIssued |-> FALSE, deductFailed |-> FALSE,
   updated |-> FALSE, rolledBack |-> FALSE, rollbackFailed |-> FALSE,
   insertFailed |-> FALSE, dbFailed |-> FALSE]

NoPre == [exists |-> FALSE, credits |-> 0, ntx |-> 0]

Row(c) == [exists |-> TRUE, credits |-> c]
NoRow == [exists |-> FALSE, credits |-> 0]

\* `data?.balance || 0` / `data?.credits || 0` on the row a select returned
ReadCredits(row) == IF row.exists THEN row.credits ELSE 0

Init ==
  /\ user_credits \in [Users -> {NoRow} \cup {Row(c) : c \in 0..MaxBalance}]
  /\ transactions = <<>>
  /\ pc = [p \in Procs |-> "idle"]
  /\ req = [p \in Procs |-> NoRequest]
  /\ user = [p \in Procs |-> NoUser]
  /\ cur = [p \in Procs |-> 0]
  /\ resp = [p \in Procs |-> NoResponse]
  /\ hist = [p \in Procs |-> NoHist]
  /\ pre = [p \in Procs |-> NoPre]
  /\ initial = [u \in Users |-> ReadCredits(user_credits[u])]
  /\ calc = NoCalc

\* ---------------------------------------------------------------- responses
Json(status) == [NoResponse EXCEPT !.status = status, !.body = "error"]

\* required and available exchanged
InsufficientCredits_Swapped(cost, balance) ==
  [NoResponse EXCEPT !.status = 402, !.body = "error",
                     !.required = balance, !.available = cost]

InsufficientCredits(cost, balance) ==
  [NoResponse EXCEPT !.status = 402, !.body = "error",
                     !.required = cost, !.available = balance]

\* the 200 response of a dispatcher: the artifact and X-Credits-Used / creditsUsed
ResultResponse(cost) ==
  [NoResponse EXCEPT !.status = 200, !.body = "result", !.creditsUsed = cost,
                     !.success = TRUE]

Cost(q) == Lookup(CREDIT_COSTS(q.route), q.op)

FirstPc(q) ==
  CASE q.kind = "dispatch" -> "r_resolve"
    [] q.kind = "settle"   -> "l_select"
    [] q.kind = "deduct"   -> "d_validate"
    [] q.kind = "webhook"  -> "w_verify"

\* ----------------------------------------------------- a request comes in
\* each worker serves one request; Init draws the balance earlier requests left
StartWith(p, requests) ==
  /\ pc[p] = "idle"
  /\ \E q \in requests :
       /\ req' = [req EXCEPT ![p] = q]
       /\ pc' = [pc EXCEPT ![p] = FirstPc(q)]
       \* the snapshot is of the caller's row (the single user's, when the
       \* request names none)
       /\ pre' = [pre EXCEPT ![p] =
                    LET u == IF q.user_id \in Users THEN q.user_id ELSE "u1"
                    IN [exists |-> user_credits[u].exists,
                        credits |-> ReadCredits(user_credits[u]),
                        ntx |-> Len(transactions)]]
  /\ UNCHANGED <<user_credits, transactions, user, cur, resp, hist, aux>>

Start(p) == StartWith(p, Requests)

\* ------------------------------------------------- paid-operation dispatchers
\* POST: `if (!operation || !CREDIT_COSTS[operation])` -> 400
Resolve(p) ==
  /\ pc[p] = "r_resolve"
  /\ IF InvalidOperation(req[p].route, req[p].op)
     THEN /\ resp' = [resp EXCEPT ![p] = Json(400)]
          /\ pc' = [pc EXCEPT ![p] = "done"]
     ELSE /\ pc' = [pc EXCEPT ![p] = "r_auth"]
          /\ UNCHANGED resp
  /\ UNCHANGED <<user_credits, transactions, req, user, cur, hist, pre, aux>>

\* header test and supabase.auth.getUser(token) -> 401
Authenticate(p) ==
  /\ pc[p] = "r_auth"
  /\ \E hdr \in Headers :
       LET u == GetUser(hdr.token)
       IN /\ req' = [req EXCEPT ![p].hdr = hdr]
          /\ IF ~StartsWithBearer(hdr) \/ u = NoUser
             THEN /\ resp' = [resp EXCEPT ![p] = Json(401)]
                  /\ pc' = [pc EXCEPT ![p] = "done"]
                  /\ UNCHANGED <<user, hist>>
             ELSE /\ user' = [user EXCEPT ![p] = u]
                  /\ hist' = [hist EXCEPT ![p].authOk = TRUE]
                  /\ pc' = [pc EXCEPT ![p] = "r_check"]
                  /\ UNCHANGED resp
  /\ UNCHANGED <<user_credits, transactions, cur, pre, aux>>

\* select('balance').single(), its error ignored; `balance < cost` -> 402
CheckCredits(p) ==
  /\ pc[p] = "r_check"
  /\ \E readOk \in BOOLEAN :
       LET balance == IF readOk THEN ReadCredits(user_credits[user[p]]) ELSE 0
           cost == Cost(req[p])
       IN /\ cur' = [cur EXCEPT ![p] = balance]
          /\ IF JsLess(balance, cost)
             THEN /\ resp' = [resp EXCEPT ![p] = InsufficientCredits(cost.n, balance)]
                  /\ pc' = [pc EXCEPT ![p] = "done"]
                  /\ hist' = [hist EXCEPT ![p].balRead = TRUE,
                                          ![p].dbFailed = ~readOk]
             ELSE /\ pc' = [pc EXCEPT ![p] = "r_handler"]
                  /\ hist' = [hist EXCEPT ![p].balRead = TRUE,
                                          ![p].checkOk = TRUE,
                                          ![p].dbFailed = ~readOk]
                  /\ UNCHANGED resp
  /\ UNCHANGED <<user_credits, transactions, req, user, pre, aux>>

\* a handler that validates nothing
PayloadAccepted_Any(payload) == TRUE

\* the handlers' first test, e.g. `if (!file || !newOrder) throw new Error(...)`:
\* a payload missing a required file or parameter makes the handler throw
PayloadAccepted(payload) == payload = "ok"

\* a handler whose exception is swallowed: the dispatcher goes on to settle
Handler_SwallowsThrow(p) ==
  /\ pc[p] = "r_handler"
  /\ IF req[p].op \notin HANDLERS(req[p].route)
     THEN /\ resp' = [resp EXCEPT ![p] = Json(501)]
          /\ pc' = [pc EXCEPT ![p] = "done"]
          /\ UNCHANGED hist
     ELSE \E ok \in BOOLEAN :
            /\ hist' = [hist EXCEPT ![p].handlerRan = TRUE, ![p].handlerOk = ok]
            /\ pc' = [pc EXCEPT ![p] = "r_settle"]
            /\ UNCHANGED resp
  /\ UNCHANGED <<user_credits, transactions, req, user, cur, pre, aux>>

\* the switch over the operation: a handler that returns or throws, or the
\* default branch (501)
Handler(p) ==
  /\ pc[p] = "r_handler"
  /\ IF req[p].op \notin HANDLERS(req[p].route)
     THEN /\ resp' = [resp EXCEPT ![p] = Json(501)]
          /\ pc' = [pc EXCEPT ![p] = "done"]
          /\ UNCHANGED hist
     ELSE \E ok \in BOOLEAN :
            /\ ok => PayloadAccepted(req[p].payload)
            /\ hist' = [hist EXCEPT ![p].handlerRan = TRUE, ![p].handlerOk = ok]
            /\ IF ok
               THEN /\ pc' = [pc EXCEPT ![p] = "r_settle"]
                    /\ UNCHANGED resp
               ELSE /\ resp' = [resp EXCEPT ![p] = Json(500)]
                    /\ pc' = [pc EXCEPT ![p] = "done"]
  /\ UNCHANGED <<user_credits, transactions, req, user, cur, pre, aux>>

\* ------------------------------------------------------------------ settle
\* the stored procedure deduct_credits(p_user_id, p_amount, p_reason) behind
\* supabase.rpc: one transaction that re-reads the balance, refuses when it is
\* below the amount, and otherwise writes balance - amount and the audit row.
\* dbOk = FALSE is the datastore failing the call.
DeductCreditsRpc(rows, txs, u, amount, dbOk) ==
  LET current == ReadCredits(rows[u])
  IN IF ~dbOk \/ ~rows[u].exists \/ current < amount
     THEN [error |-> TRUE, rows |-> rows, txs |-> txs]
     ELSE [error |-> FALSE,
           rows |-> [rows EXCEPT ![u] = Row(current - amount)],
           txs |-> Append(txs, [user_id |-> u, amount |-> -amount])]

\* what each dispatcher does with the error the rpc returned: pdf-operations
\* (deductCredits) throws on it, the other three never look at it
ThrowsOnDeductError(route) == route = "pdf-operations"

\* pdf-operations inserts its own credit_transactions row after the rpc
LogsAfterDeduct(route) == route = "pdf-operations"

\* `await supabase.rpc('deduct_credits', ...)` after the handler returned
Settle(p) ==
  /\ pc[p] = "r_settle"
  /\ \E dbOk \in BOOLEAN :
       LET cost == Cost(req[p]).n
           out == DeductCreditsRpc(user_credits, transactions, user[p], cost, dbOk)
       IN /\ user_credits' = out.rows
          /\ transactions' = out.txs
          /\ hist' = [hist EXCEPT ![p].deductIssued = TRUE,
                                  ![p].deductFailed = out.error,
                                  ![p].dbFailed = @ \/ ~dbOk]
          /\ IF out.error /\ ThrowsOnDeductError(req[p].route)
             THEN /\ resp' = [resp EXCEPT ![p] = Json(500)]
                  /\ pc' = [pc EXCEPT ![p] = "done"]
             ELSE IF LogsAfterDeduct(req[p].route)
             THEN /\ pc' = [pc EXCEPT ![p] = "r_log"]
                  /\ UNCHANGED resp
             ELSE /\ resp' = [resp EXCEPT ![p] = ResultResponse(cost)]
                  /\ pc' = [pc EXCEPT ![p] = "done"]
  /\ UNCHANGED <<req, user, cur, pre, aux>>

\* deductCredits: `await supabase.from('credit_transactions').insert(...)`,
\* its error ignored; then the 200 response
LogTransaction(p) ==
  /\ pc[p] = "r_log"
  /\ \E dbOk \in BOOLEAN :
       LET cost == Cost(req[p]).n
       IN /\ transactions' =
               IF dbOk
               THEN Append(transactions, [user_id |-> user[p], amount |-> -cost])
               ELSE transactions
          /\ hist' = [hist EXCEPT ![p].insertFailed = ~dbOk,
                                  ![p].dbFailed = @ \/ ~dbOk]
          /\ resp' = [resp EXCEPT ![p] = ResultResponse(cost)]
          /\ pc' = [pc EXCEPT ![p] = "done"]
  /\ UNCHANGED <<user_credits, req, user, cur, pre, aux>>

\* ------------------------------------------- lib/supabase-client.ts ledger
\* GET /credits/balance: `checkUserCredits(user.id, 0).current`
GetBalance(rows, u) == ReadCredits(rows[u])

\* the value deductCreditsAtomic returns
SettleResult(success, remaining) ==
  [NoResponse EXCEPT !.body = "return", !.success = success, !.remaining = remaining]

\* deductCreditsAtomic rejects (checkUserCredits threw outside its try)
SettleThrow == [NoResponse EXCEPT !.body = "throw"]

\* the comparison lost: every balance is taken to cover the amount
HasCredits_Always(current, required) == TRUE

\* checkUserCredits: `current >= required`
HasCredits(current, required) == current >= required

\* `.update({ credits: value }).eq('user_id', u)`: rewrites the row if it exists
UpdateCredits(rows, u, value) ==
  IF rows[u].exists THEN [rows EXCEPT ![u] = Row(value)] ELSE rows

\* one credit more than the amount taken
Deducted_OffByOne(current, amount) == current - amount - 1

\* the amount added instead of subtracted
Deducted_Adds(current, amount) == current + amount

\* the balance deductCreditsAtomic writes
Deducted(current, amount) == current - amount

\* checkUserCredits: select('credits').single()
LibSelect(p) ==
  /\ pc[p] = "l_select"
  /\ \E dbOk \in BOOLEAN :
       LET u == req[p].user_id
           current == ReadCredits(user_credits[u])
       IN IF ~dbOk
          THEN /\ resp' = [resp EXCEPT ![p] = SettleThrow]
               /\ pc' = [pc EXCEPT ![p] = "done"]
               /\ hist' = [hist EXCEPT ![p].dbFailed = TRUE]
               /\ UNCHANGED cur
          ELSE IF ~user_credits[u].exists
          THEN /\ pc' = [pc EXCEPT ![p] = "l_create"]
               /\ hist' = [hist EXCEPT ![p].balRead = TRUE]
               /\ UNCHANGED <<cur, resp>>
          ELSE /\ cur' = [cur EXCEPT ![p] = current]
               /\ IF HasCredits(current, req[p].amount)
                  THEN /\ pc' = [pc EXCEPT ![p] = "l_update"]
                       /\ hist' = [hist EXCEPT ![p].balRead = TRUE,
                                               ![p].checkOk = TRUE]
                       /\ UNCHANGED resp
                  ELSE /\ resp' = [resp EXCEPT ![p] = SettleResult(FALSE, current)]
                       /\ pc' = [pc EXCEPT ![p] = "done"]
                       /\ hist' = [hist EXCEPT ![p].balRead = TRUE]
  /\ UNCHANGED <<user_credits, transactions, req, user, pre, aux>>

\* checkUserCredits on PGRST116: insert({ user_id, credits: 0 }), then
\* { hasCredits: false, current: 0 }
LibCreateRow(p) ==
  /\ pc[p] = "l_create"
  /\ \E dbOk \in BOOLEAN :
       LET u == req[p].user_id
       IN /\ user_credits' =
               IF dbOk /\ ~user_credits[u].exists
               THEN [user_credits EXCEPT ![u] = Row(0)]
               ELSE user_credits
          /\ hist' = [hist EXCEPT ![p].dbFailed = @ \/ ~dbOk]
  /\ cur' = [cur EXCEPT ![p] = 0]
  /\ resp' = [resp EXCEPT ![p] = SettleResult(FALSE, 0)]
  /\ pc' = [pc EXCEPT ![p] = "done"]
  /\ UNCHANGED <<transactions, req, user, pre, aux>>

\* the decrement applied to the stored balance instead of the balance read
LibUpdate_Atomic(p) ==
  /\ pc[p] = "l_update"
  /\ \E dbOk \in BOOLEAN :
       IF dbOk
       THEN /\ user_credits' = UpdateCredits(user_credits, req[p].user_id,
                 ReadCredits(user_credits[req[p].user_id]) - req[p].amount)
            /\ hist' = [hist EXCEPT ![p].updated = TRUE]
            /\ pc' = [pc EXCEPT ![p] = "l_insert"]
            /\ UNCHANGED resp
       ELSE /\ resp' = [resp EXCEPT ![p] = SettleResult(FALSE, cur[p])]
            /\ hist' = [hist EXCEPT ![p].dbFailed = TRUE]
            /\ pc' = [pc EXCEPT ![p] = "done"]
            /\ UNCHANGED user_credits
  /\ UNCHANGED <<transactions, req, user, cur, pre, aux>>

\* update({ credits: current - amount }); updateError is thrown and caught
LibUpdate(p) ==
  /\ pc[p] = "l_update"
  /\ \E dbOk \in BOOLEAN :
       IF dbOk
       THEN /\ user_credits' = UpdateCredits(user_credits, req[p].user_id,
                                             Deducted(cur[p], req[p].amount))
            /\ hist' = [hist EXCEPT ![p].updated = TRUE]
            /\ pc' = [pc EXCEPT ![p] = "l_insert"]
            /\ UNCHANGED resp
       ELSE /\ resp' = [resp EXCEPT ![p] = SettleResult(FALSE, cur[p])]
            /\ hist' = [hist EXCEPT ![p].dbFailed = TRUE]
            /\ pc' = [pc EXCEPT ![p] = "done"]
            /\ UNCHANGED user_credits
  /\ UNCHANGED <<transactions, req, user, cur, pre, aux>>

\* insert into credit_transactions; on logError go to the rollback
LibInsert(p) ==
  /\ pc[p] = "l_insert"
  /\ \E dbOk \in BOOLEAN :
       IF dbOk
       THEN /\ transactions' = Append(transactions,
                 [user_id |-> req[p].user_id, amount |-> -req[p].amount])
            /\ resp' = [resp EXCEPT ![p] =
                 SettleResult(TRUE, Deducted(cur[p], req[p].amount))]
            /\ pc' = [pc EXCEPT ![p] = "done"]
            /\ UNCHANGED hist
       ELSE /\ hist' = [hist EXCEPT ![p].insertFailed = TRUE, ![p].dbFailed = TRUE]
            /\ pc' = [pc EXCEPT ![p] = "l_rollback"]
            /\ UNCHANGED <<transactions, resp>>
  /\ UNCHANGED <<user_credits, req, user, cur, pre, aux>>

\* the rollback update({ credits: current }), its error ignored; then
\* `throw logError`, caught: { success: false, remaining: current }
LibRollback(p) ==
  /\ pc[p] = "l_rollback"
  /\ \E dbOk \in BOOLEAN :
       /\ user_credits' =
            IF dbOk THEN UpdateCredits(user_credits, req[p].user_id, cur[p])
            ELSE user_credits
       /\ hist' = [hist EXCEPT ![p].rolledBack = dbOk,
                               ![p].rollbackFailed = ~dbOk]
  /\ resp' = [resp EXCEPT ![p] = SettleResult(FALSE, cur[p])]
  /\ pc' = [pc EXCEPT ![p] = "done"]
  /\ UNCHANGED <<transactions, req, user, cur, pre, aux>>

\* ------------------------------------------------------ POST /credits/deduct
DeductOk(remaining) ==
  [NoResponse EXCEPT !.status = 200, !.body = "result", !.success = TRUE,
                     !.remaining = remaining]

\* `if (!user_id || !amount)` -> 400
DeductValidate(p) ==
  /\ pc[p] = "d_validate"
  /\ IF req[p].user_id = NoUser \/ req[p].amount = 0
     THEN /\ resp' = [resp EXCEPT ![p] = Json(400)]
          /\ pc' = [pc EXCEPT ![p] = "done"]
     ELSE /\ pc' = [pc EXCEPT ![p] = "d_select"]
          /\ UNCHANGED resp
  /\ UNCHANGED <<user_credits, transactions, req, user, cur, hist, pre, aux>>

\* select('credits').single(): fetchError is thrown (500);
\* `currentCredits < amount` -> 402
DeductSelect(p) ==
  /\ pc[p] = "d_select"
  /\ \E dbOk \in BOOLEAN :
       LET u == req[p].user_id
           currentCredits == ReadCredits(user_credits[u])
       IN IF ~dbOk \/ ~user_credits[u].exists
          THEN /\ resp' = [resp EXCEPT ![p] = Json(500)]
               /\ pc' = [pc EXCEPT ![p] = "done"]
               /\ hist' = [hist EXCEPT ![p].dbFailed = TRUE]
               /\ UNCHANGED cur
          ELSE /\ cur' = [cur EXCEPT ![p] = currentCredits]
               /\ IF currentCredits < req[p].amount
                  THEN /\ resp' = [resp EXCEPT ![p] = Json(402)]
                       /\ pc' = [pc EXCEPT ![p] = "done"]
                       /\ hist' = [hist EXCEPT ![p].balRead = TRUE]
                  ELSE /\ pc' = [pc EXCEPT ![p] = "d_update"]
                       /\ hist' = [hist EXCEPT ![p].balRead = TRUE,
                                               ![p].checkOk = TRUE]
                       /\ UNCHANGED resp
  /\ UNCHANGED <<user_credits, transactions, req, user, pre, aux>>

\* update({ credits: currentCredits - amount }); updateError is thrown (500)
DeductUpdate(p) ==
  /\ pc[p] = "d_update"
  /\ \E dbOk \in BOOLEAN :
       IF dbOk
       THEN /\ user_credits' = UpdateCredits(user_credits, req[p].user_id,
                                             cur[p] - req[p].amount)
            /\ hist' = [hist EXCEPT ![p].updated = TRUE]
            /\ pc' = [pc EXCEPT ![p] = "d_insert"]
            /\ UNCHANGED resp
       ELSE /\ resp' = [resp EXCEPT ![p] = Json(500)]
            /\ hist' = [hist EXCEPT ![p].dbFailed = TRUE]
            /\ pc' = [pc EXCEPT ![p] = "done"]
            /\ UNCHANGED user_credits
  /\ UNCHANGED <<transactions, req, user, cur, pre, aux>>

\* insert into credit_transactions, its error ignored; then
\* { success: true, remaining_credits: currentCredits - amount }
DeductInsert(p) ==
  /\ pc[p] = "d_insert"
  /\ \E dbOk \in BOOLEAN :
       /\ transactions' =
            IF dbOk
            THEN Append(transactions,
                   [user_id |-> req[p].user_id, amount |-> -req[p].amount])
            ELSE transactions
       /\ hist' = [hist EXCEPT ![p].insertFailed = ~dbOk,
                               ![p].dbFailed = @ \/ ~dbOk]
  /\ resp' = [resp EXCEPT ![p] = DeductOk(cur[p] - req[p].amount)]
  /\ pc' = [pc EXCEPT ![p] = "done"]
  /\ UNCHANGED <<user_credits, req, user, cur, pre, aux>>

\* ------------------------------------------------------- payment webhook
\* { received: true }
Received == [NoResponse EXCEPT !.status = 200, !.body = "received"]

Signatures == {"missing", "bad", "ok"}

\* `CREDIT_PACKAGES[priceId] || 0`
CreditsToAdd(priceId) ==
  IF priceId \in DOMAIN CREDIT_PACKAGES THEN CREDIT_PACKAGES[priceId] ELSE 0

\* the balance handleCheckoutCompleted writes
NewTotal(currentCredits, creditsToAdd) == currentCredits + creditsToAdd

\* POST (webhook): the stripe-signature header and constructEvent -> 400; the
\* switch over event.type; handleCheckoutCompleted's metadata and price tests
WebhookVerify(p) ==
  /\ pc[p] = "w_verify"
  /\ \E sg \in Signatures :
       /\ req' = [req EXCEPT ![p].sig = sg]
       /\ IF sg # "ok"
          THEN /\ resp' = [resp EXCEPT ![p] = Json(400)]
               /\ pc' = [pc EXCEPT ![p] = "done"]
          ELSE IF \/ req[p].etype # "checkout.session.completed"
                  \/ req[p].user_id = NoUser
                  \/ CreditsToAdd(req[p].price) = 0
          THEN /\ resp' = [resp EXCEPT ![p] = Received]
               /\ pc' = [pc EXCEPT ![p] = "done"]
          ELSE /\ pc' = [pc EXCEPT ![p] = "w_select"]
               /\ UNCHANGED resp
  /\ UNCHANGED <<user_credits, transactions, user, cur, hist, pre, aux>>

\* handleCheckoutCompleted: select('credits').single(), its error ignored;
\* `currentData?.credits || 0`
WebhookSelect(p) ==
  /\ pc[p] = "w_select"
  /\ \E dbOk \in BOOLEAN :
       /\ cur' = [cur EXCEPT ![p] =
                    IF dbOk THEN ReadCredits(user_credits[req[p].user_id]) ELSE 0]
       /\ hist' = [hist EXCEPT ![p].balRead = TRUE, ![p].dbFailed = ~dbOk]
  /\ pc' = [pc EXCEPT ![p] = "w_upsert"]
  /\ UNCHANGED <<user_credits, transactions, req, user, resp, pre, aux>>

\* handleCheckoutCompleted: upsert({ user_id, credits: newTotal }), its error
\* ignored
WebhookUpsert(p) ==
  /\ pc[p] = "w_upsert"
  /\ \E dbOk \in BOOLEAN :
       /\ user_credits' =
            IF dbOk
            THEN [user_credits EXCEPT ![req[p].user_id] =
                    Row(NewTotal(cur[p], CreditsToAdd(req[p].price)))]
            ELSE user_credits
       /\ hist' = [hist EXCEPT ![p].updated = dbOk, ![p].dbFailed = @ \/ ~dbOk]
  /\ pc' = [pc EXCEPT ![p] = "w_insert"]
  /\ UNCHANGED <<transactions, req, user, cur, resp, pre, aux>>

\* handleCheckoutCompleted: insert into credit_transactions (and the receipt),
\* errors ignored; then { received: true }
WebhookInsert(p) ==
  /\ pc[p] = "w_insert"
  /\ \E dbOk \in BOOLEAN :
       /\ transactions' =
            IF dbOk
            THEN Append(transactions,
                   [user_id |-> req[p].user_id,
                    amount |-> CreditsToAdd(req[p].price)])
            ELSE transactions
       /\ hist' = [hist EXCEPT ![p].insertFailed = ~dbOk,
                               ![p].dbFailed = @ \/ ~dbOk]
  /\ resp' = [resp EXCEPT ![p] = Received]
  /\ pc' = [pc EXCEPT ![p] = "done"]
  /\ UNCHANGED <<user_credits, req, user, cur, pre, aux>>

\* -------------------------------------------------------------------- system
Step(p) ==
  \/ Resolve(p)
  \/ Authenticate(p)
  \/ CheckCredits(p)
  \/ Handler(p)
  \/ Settle(p)
  \/ LogTransaction(p)
  \/ LibSelect(p)
  \/ LibCreateRow(p)
  \/ LibUpdate(p)
  \/ LibInsert(p)
  \/ LibRollback(p)
  \/ DeductValidate(p)
  \/ DeductSelect(p)
  \/ DeductUpdate(p)
  \/ DeductInsert(p)
  \/ WebhookVerify(p)
  \/ WebhookSelect(p)
  \/ WebhookUpsert(p)
  \/ WebhookInsert(p)

Next ==
  \E p \in Procs : Start(p) \/ Step(p)

Spec == Init /\ [][Next]_vars

\* requests served one at a time: a request starts only when no other is in
\* progress
Quiet(p) == \A q \in Procs \ {p} : pc[q] \in {"idle", "done"}

StartSeq(p) == Quiet(p) /\ Start(p)

NextSeq ==
  \E p \in Procs : StartSeq(p) \/ Step(p)

SeqSpec == Init /\ [][NextSeq]_vars

\* ----------------------------------------- one dispatcher request, any name
\* every key of the four cost tables
TableNames ==
  DOMAIN OperationsCosts \cup DOMAIN SignatureCosts \cup DOMAIN FormCosts
    \cup DOMAIN ConversionCosts

\* names a client may send that are keys of no table
ForeignNames == {"create_form", "flatten_form"}

\* the form data: complete, or missing a required file or parameter
Payloads == {"ok", "malformed"}

AnyDispatchRequests ==
  {[Req("dispatch") EXCEPT !.route = r, !.op = o, !.payload = pl] :
      r \in Routes, o \in TableNames \cup ForeignNames \cup OtherNames,
      pl \in Payloads}

\* the largest cost of the tables
MaxCost ==
  LET costs == UNION {{CREDIT_COSTS(r)[o] : o \in DOMAIN CREDIT_COSTS(r)} :
                        r \in Routes}
  IN CHOOSE c \in costs : \A d \in costs : d <= c

\* the stored balance covers any operation, or falls short of it
InitDispatch ==
  /\ user_credits \in [Users -> {NoRow} \cup {Row(c) : c \in 0..MaxCost}]
  /\ transactions = <<>>
  /\ pc = [p \in Procs |-> "idle"]
  /\ req = [p \in Procs |-> NoRequest]
  /\ user = [p \in Procs |-> NoUser]
  /\ cur = [p \in Procs |-> 0]
  /\ resp = [p \in Procs |-> NoResponse]
  /\ hist = [p \in Procs |-> NoHist]
  /\ pre = [p \in Procs |-> NoPre]
  /\ initial = [u \in Users |-> ReadCredits(user_credits[u])]
  /\ calc = NoCalc

\* the worker that serves the request
Worker == "p1"

NextDispatch ==
  \/ StartWith(Worker, AnyDispatchRequests)
  \/ Resolve(Worker)
  \/ Authenticate(Worker)
  \/ CheckCredits(Worker)
  \/ Handler(Worker)
  \/ Settle(Worker)
  \/ LogTransaction(Worker)

DispatchSpec == InitDispatch /\ [][NextDispatch]_vars

\* ------------------------------------------------------------ page utilities
\* a string is the sequence of its characters
Alphabet == {"0", "1", "2", "-", ",", " "}

Strings == UNION {[1..k -> Alphabet] : k \in 0..MaxLen}

PageCounts == 0..MaxPages

Digit ==
  ("0" :> 0) @@ ("1" :> 1) @@ ("2" :> 2) @@ ("3" :> 3) @@ ("4" :> 4) @@
  ("5" :> 5) @@ ("6" :> 6) @@ ("7" :> 7) @@ ("8" :> 8) @@ ("9" :> 9)

NaN == [t |-> "NaN", n |-> 0]

\* a <= b of two JavaScript numbers: false when either is NaN
JsLessEq(a, b) == a.t = "number" /\ b.t = "number" /\ a.n <= b.n

\* String.prototype.split(sep), sep one character
RECURSIVE SplitFrom(_, _, _)
SplitFrom(s, sep, piece) ==
  IF s = <<>> THEN <<piece>>
  ELSE IF Head(s) = sep
       THEN <<piece>> \o SplitFrom(Tail(s), sep, <<>>)
       ELSE SplitFrom(Tail(s), sep, Append(piece, Head(s)))

Split(s, sep) == SplitFrom(s, sep, <<>>)

\* String.prototype.trim()
RECURSIVE TrimStart(_)
TrimStart(s) ==
  IF s # <<>> /\ Head(s) = " " THEN TrimStart(Tail(s)) ELSE s

RECURSIVE TrimEnd(_)
TrimEnd(s) ==
  IF s # <<>> /\ s[Len(s)] = " " THEN TrimEnd(SubSeq(s, 1, Len(s) - 1)) ELSE s

Trim(s) == TrimEnd(TrimStart(s))

\* String.prototype.includes(ch)
Includes(s, ch) == \E i \in 1..Len(s) : s[i] = ch

\* the longest prefix of decimal digits
RECURSIVE DigitPrefix(_)
DigitPrefix(s) ==
  IF s # <<>> /\ Head(s) \in DOMAIN Digit
  THEN <<Head(s)>> \o DigitPrefix(Tail(s))
  ELSE <<>>

RECURSIVE Decimal(_, _)
Decimal(ds, acc) ==
  IF ds = <<>> THEN acc ELSE Decimal(Tail(ds), 10 * acc + Digit[Head(ds)])

\* parseInt(s): leading white space skipped, an optional '-', then the digits
\* up to the first other character; NaN when there is no digit
ParseInt(s) ==
  LET t == TrimStart(s)
      neg == t # <<>> /\ Head(t) = "-"
      ds == DigitPrefix(IF neg THEN Tail(t) ELSE t)
  IN IF ds = <<>> THEN NaN
     ELSE Num(IF neg THEN 0 - Decimal(ds, 0) ELSE Decimal(ds, 0))

\* `for (let i = start; i <= end && i <= totalPages; i++) if (i >= 1) push(i - 1)`
RECURSIVE RangeLoop(_, _, _)
RangeLoop(i, end, totalPages) ==
  IF JsLessEq(i, end) /\ JsLessEq(i, Num(totalPages))
  THEN (IF i.n >= 1 THEN <<i.n - 1>> ELSE <<>>)
         \o RangeLoop(Num(i.n + 1), end, totalPages)
  ELSE <<>>

\* the body of parsePageRange's loop over the parts
PartIndices(part, totalPages) ==
  LET trimmed == Trim(part)
  IN IF Includes(trimmed, "-")
     THEN LET pieces == Split(trimmed, "-")
              start == ParseInt(Trim(pieces[1]))
              end == ParseInt(Trim(pieces[2]))
          IN RangeLoop(start, end, totalPages)
     ELSE LET num == ParseInt(trimmed)
          IN IF JsLessEq(Num(1), num) /\ JsLessEq(num, Num(totalPages))
             THEN <<num.n - 1>>
             ELSE <<>>

RECURSIVE AllIndices(_, _)
AllIndices(parts, totalPages) ==
  IF parts = <<>> THEN <<>>
  ELSE PartIndices(Head(parts), totalPages) \o AllIndices(Tail(parts), totalPages)

\* `[...new Set(indices)]`: the first occurrence of each value, in order
RECURSIVE Unique(_)
Unique(indices) ==
  IF indices = <<>> THEN <<>>
  ELSE LET front == Unique(SubSeq(indices, 1, Len(indices) - 1))
           last == indices[Len(indices)]
       IN IF \E i \in 1..Len(front) : front[i] = last
          THEN front
          ELSE Append(front, last)

\* `.sort((a, b) => a - b)`
RECURSIVE InsertAsc(_, _)
InsertAsc(sorted, x) ==
  IF sorted = <<>> THEN <<x>>
  ELSE IF x < Head(sorted) THEN <<x>> \o sorted
  ELSE <<Head(sorted)>> \o InsertAsc(Tail(sorted), x)

RECURSIVE SortAsc(_)
SortAsc(indices) ==
  IF indices = <<>> THEN <<>>
  ELSE InsertAsc(SortAsc(SubSeq(indices, 1, Len(indices) - 1)),
                 indices[Len(indices)])

\* without the Set: duplicates kept
parsePageRange_NoSet(range, totalPages) ==
  SortAsc(AllIndices(Split(range, ","), totalPages))

parsePageRange(range, totalPages) ==
  SortAsc(Unique(AllIndices(Split(range, ","), totalPages)))

\* handleReorderPages: `newOrder.split(',').map(n => parseInt(n.trim()) - 1)`
OrderIndices(newOrder) ==
  LET parts == Split(newOrder, ",")
  IN [i \in 1..Len(parts) |->
        LET v == ParseInt(Trim(parts[i]))
        IN IF v.t = "number" THEN Num(v.n - 1) ELSE NaN]

\* handleReorderPages throws before copying: `!newOrder`, the length test, and
\* `orderIndices.some(i => i < 0 || i >= totalPages)`
ReorderThrows(newOrder, totalPages) ==
  LET orderIndices == OrderIndices(newOrder)
  IN \/ newOrder = <<>>
     \/ Len(orderIndices) # totalPages
     \/ \E i \in 1..Len(orderIndices) :
          /\ orderIndices[i].t = "number"
          /\ orderIndices[i].n < 0 \/ orderIndices[i].n >= totalPages

\* the page utilities called
PageUtilities == {"parsePageRange", "handleReorderPages", "handleDeletePages"}

InitPages ==
  /\ user_credits = [u \in Users |-> NoRow]
  /\ transactions = <<>>
  /\ pc = [p \in Procs |-> "idle"]
  /\ req = [p \in Procs |-> NoRequest]
  /\ user = [p \in Procs |-> NoUser]
  /\ cur = [p \in Procs |-> 0]
  /\ resp = [p \in Procs |-> NoResponse]
  /\ hist = [p \in Procs |-> NoHist]
  /\ pre = [p \in Procs |-> NoPre]
  /\ initial = [u \in Users |-> 0]
  \* a call of a page utility on a document of n pages, not yet made
  /\ calc \in [fn : PageUtilities, range : Strings, n : PageCounts,
               done : {FALSE}, accepted : {FALSE}, result : {<<>>}]

ledger == <<user_credits, transactions, pc, req, user, cur, resp, hist, pre>>

CallParsePageRange ==
  /\ calc.fn = "parsePageRange" /\ ~calc.done
  /\ calc' = [calc EXCEPT !.done = TRUE, !.accepted = TRUE,
                          !.result = parsePageRange(calc.range, calc.n)]
  /\ UNCHANGED <<ledger, initial>>

\* handleReorderPages: the pages of the new document are the source pages at
\* orderIndices, in that order. An index that is NaN passes the validation;
\* copyPages (pdf-lib) is then given an index that names no page, and what it
\* does with it is the library's: both outcomes are allowed.
CallReorderPages ==
  /\ calc.fn = "handleReorderPages" /\ ~calc.done
  /\ LET orderIndices == OrderIndices(calc.range)
         hasNaN == \E i \in 1..Len(orderIndices) : orderIndices[i].t = "NaN"
     IN IF ReorderThrows(calc.range, calc.n)
        THEN calc' = [calc EXCEPT !.done = TRUE, !.accepted = FALSE]
        ELSE \E copied \in (IF hasNaN THEN BOOLEAN ELSE {TRUE}) :
               calc' = [calc EXCEPT
                          !.done = TRUE, !.accepted = copied,
                          !.result = IF copied
                                     THEN [i \in 1..Len(orderIndices) |->
                                             IF orderIndices[i].t = "number"
                                             THEN orderIndices[i].n
                                             ELSE -1]
                                     ELSE <<>>]
  /\ UNCHANGED <<ledger, initial>>

\* handleDeletePages: Array.from({ length: totalPages }, (_, i) => i)
\*   .filter(i => !deleteIndices.includes(i))
RECURSIVE KeepIndices(_, _, _)
KeepIndices(i, totalPages, deleteIndices) ==
  IF i >= totalPages THEN <<>>
  ELSE (IF \E k \in 1..Len(deleteIndices) : deleteIndices[k] = i
        THEN <<>> ELSE <<i>>)
         \o KeepIndices(i + 1, totalPages, deleteIndices)

\* the test for an empty result left out
DeleteThrows_NoEmptyTest(pagesToDelete, keepIndices) == pagesToDelete = <<>>

\* handleDeletePages throws: `!pagesToDelete`, `keepIndices.length === 0`
DeleteThrows(pagesToDelete, keepIndices) ==
  pagesToDelete = <<>> \/ Len(keepIndices) = 0

\* handleDeletePages: the new document holds the source pages at keepIndices
CallDeletePages ==
  /\ calc.fn = "handleDeletePages" /\ ~calc.done
  /\ LET deleteIndices == parsePageRange(calc.range, calc.n)
         keepIndices == KeepIndices(0, calc.n, deleteIndices)
     IN IF DeleteThrows(calc.range, keepIndices)
        THEN calc' = [calc EXCEPT !.done = TRUE, !.accepted = FALSE]
        ELSE calc' = [calc EXCEPT !.done = TRUE, !.accepted = TRUE,
                                  !.result = keepIndices]
  /\ UNCHANGED <<ledger, initial>>

NextPages == CallParsePageRange \/ CallReorderPages \/ CallDeletePages

PageSpec == InitPages /\ [][NextPages]_vars

\* -------------------------------------------------------------------- rotate
\* the angle parameter as the client sends it; <<>> is a missing parameter
AngleStrings ==
  {<<>>, <<"0">>, <<"9", "0">>, <<"1", "8", "0">>, <<"2", "7", "0">>,
   <<"-", "9", "0">>, <<"-", "1", "8", "0">>, <<"-", "2", "7", "0">>,
   <<"4", "5">>, <<"3", "6", "0">>, <<"a", "b", "c">>, <<"9", "0", "x">>}

\* [90, 180, 270, -90, -180, -270]
RotationAngles == {90, 180, 270, -90, -180, -270}

\* `parseInt(formData.get('angle')) || 90`
AngleOf(s) ==
  LET v == ParseInt(s)
  IN IF v.t = "number" /\ v.n # 0 THEN v.n ELSE 90

\* the pages parameter: a keyword, a page-range expression, or missing
PageSelectors ==
  {[kw |-> k, range |-> <<>>] : k \in {"", "all", "odd", "even"}}
    \cup {[kw |-> "range", range |-> r] :
            r \in {<<"1">>, <<"1", ",", "3">>, <<"2", "-", "3">>, <<"4", ",", "2">>}}

\* Array.from({ length: totalPages }, (_, i) => i).filter(keep)
RECURSIVE IndicesFrom(_, _, _)
IndicesFrom(i, totalPages, residues) ==
  IF i >= totalPages THEN <<>>
  ELSE (IF (i % 2) \in residues THEN <<i>> ELSE <<>>)
         \o IndicesFrom(i + 1, totalPages, residues)

\* handleRotate: pageIndices, with `pages || 'all'`
PageIndices(pages, totalPages) ==
  CASE pages.kw \in {"", "all"} -> IndicesFrom(0, totalPages, {0, 1})
    [] pages.kw = "odd"         -> IndicesFrom(0, totalPages, {0})
    [] pages.kw = "even"        -> IndicesFrom(0, totalPages, {1})
    [] pages.kw = "range"       -> parsePageRange(pages.range, totalPages)

\* the angle replaces the page's rotation
Rotated_Set(currentRotation, angle) == angle

\* `degrees(currentRotation + angle)`
Rotated(currentRotation, angle) == currentRotation + angle

\* pageIndices.forEach(index => page.setRotation(...)); rot[i] is the rotation
\* of the page at 0-indexed position i - 1
RECURSIVE RotatePages(_, _, _)
RotatePages(rot, pageIndices, angle) ==
  IF pageIndices = <<>> THEN rot
  ELSE LET index == Head(pageIndices)
       IN RotatePages([rot EXCEPT ![index + 1] = Rotated(rot[index + 1], angle)],
                      Tail(pageIndices), angle)

\* the rotations a page of the uploaded document may carry
PageRotations == {0, 90, 270}

InitRotate ==
  /\ user_credits = [u \in Users |-> NoRow]
  /\ transactions = <<>>
  /\ pc = [p \in Procs |-> "idle"]
  /\ req = [p \in Procs |-> NoRequest]
  /\ user = [p \in Procs |-> NoUser]
  /\ cur = [p \in Procs |-> 0]
  /\ resp = [p \in Procs |-> NoResponse]
  /\ hist = [p \in Procs |-> NoHist]
  /\ pre = [p \in Procs |-> NoPre]
  /\ initial = [u \in Users |-> 0]
  /\ \E n \in 0..MaxRotatePages :
       \E original \in [1..n -> PageRotations] :
         \E pages \in PageSelectors :
           calc = [fn |-> "handleRotate", pages |-> pages, original |-> original,
                   rot |-> original, calls |-> <<>>]

\* one call of handleRotate on the document the previous call returned:
\* calls holds, per call made, the angle parameter and whether the call returned
CallRotate ==
  /\ calc.fn = "handleRotate" /\ Len(calc.calls) < 2
  /\ \A i \in 1..Len(calc.calls) : calc.calls[i].ok
  /\ \E a \in AngleStrings :
       LET angle == AngleOf(a)
       IN IF angle \notin RotationAngles
          THEN calc' = [calc EXCEPT
                          !.calls = Append(@, [angle |-> a, ok |-> FALSE])]
          ELSE calc' = [calc EXCEPT
                          !.calls = Append(@, [angle |-> a, ok |-> TRUE]),
                          !.rot = RotatePages(calc.rot,
                                    PageIndices(calc.pages, Len(calc.rot)), angle)]
  /\ UNCHANGED <<ledger, initial>>

RotateSpec == InitRotate /\ [][CallRotate]_vars

\* -------------------------------------------------------------- certificates
\* a document is the sequence of what was written into it
Uploads == {<<"a">>, <<"b">>}

\* generateCertificateId draws 12 random characters: any id may come out
CertIds == {"CERT-1", "CERT-2"}

\* hashDocument: the SHA-256 of the bytes, in hex; distinct documents are taken
\* to have distinct digests
HashDocument(doc) == [sha256 |-> doc]

\* handleAddCertificate draws the certificate box, with `Cert ID: ${certId}`,
\* on the loaded document and saves it
Certified(doc, certId) == Append(doc, certId)

\* the document edited after it was returned
Edited(doc) == Append(doc, "edit")

NoCertificate ==
  [exists |-> FALSE, document_hash |-> HashDocument(<<>>), revoked |-> FALSE,
   expired |-> FALSE]

NoVerdict ==
  [by |-> "none", file |-> <<>>, certId |-> "", found |-> FALSE,
   valid |-> FALSE, hashMatch |-> FALSE]

InitCertificates ==
  /\ user_credits = [u \in Users |-> NoRow]
  /\ transactions = <<>>
  /\ pc = [p \in Procs |-> "idle"]
  /\ req = [p \in Procs |-> NoRequest]
  /\ user = [p \in Procs |-> NoUser]
  /\ cur = [p \in Procs |-> 0]
  /\ resp = [p \in Procs |-> NoResponse]
  /\ hist = [p \in Procs |-> NoHist]
  /\ pre = [p \in Procs |-> NoPre]
  /\ initial = [u \in Users |-> 0]
  /\ calc = [fn |-> "certificates",
             certificate_records |-> [id \in CertIds |-> NoCertificate],
             issued |-> <<>>, verdict |-> NoVerdict]

\* the documents a client holds: its uploads, what add_certificate returned,
\* and edited copies of those
Returned == {calc.issued[i].pdf : i \in 1..Len(calc.issued)}

Files == Uploads \cup Returned \cup {Edited(d) : d \in Returned}

\* handleAddCertificate: `document_hash: await hashDocument(arrayBuffer)`,
\* arrayBuffer being the uploaded file
HashStored(upload, pdf) == HashDocument(upload)

\* handleAddCertificate: the insert's error is ignored (certificate_id is
\* UNIQUE, so a repeated id fails the insert); the response carries the
\* certified document and the id
CallAddCertificate ==
  /\ calc.fn = "certificates" /\ Len(calc.issued) < MaxIssued
  /\ \E doc \in Uploads \cup Returned, certId \in CertIds, dbOk \in BOOLEAN :
       LET pdf == Certified(doc, certId)
           stored == dbOk /\ ~calc.certificate_records[certId].exists
       IN calc' = [calc EXCEPT
                     !.certificate_records =
                        IF stored
                        THEN [@ EXCEPT ![certId] =
                                [exists |-> TRUE,
                                 document_hash |-> HashStored(doc, pdf),
                                 revoked |-> FALSE, expired |-> FALSE]]
                        ELSE @,
                     !.issued = Append(@, [upload |-> doc, pdf |-> pdf,
                                           certId |-> certId, stored |-> stored]),
                     !.verdict = NoVerdict]
  /\ UNCHANGED <<ledger, initial>>

\* certificate_records.revoked_at is set
Revoke ==
  /\ calc.fn = "certificates"
  /\ \E certId \in CertIds :
       /\ calc.certificate_records[certId].exists
       /\ ~calc.certificate_records[certId].revoked
       /\ calc' = [calc EXCEPT !.certificate_records[certId].revoked = TRUE,
                               !.verdict = NoVerdict]
  /\ UNCHANGED <<ledger, initial>>

\* certificate_records.expires_at is set and has passed
Expire ==
  /\ calc.fn = "certificates"
  /\ \E certId \in CertIds :
       /\ calc.certificate_records[certId].exists
       /\ ~calc.certificate_records[certId].expired
       /\ calc' = [calc EXCEPT !.certificate_records[certId].expired = TRUE,
                               !.verdict = NoVerdict]
  /\ UNCHANGED <<ledger, initial>>

\* handleVerifySignature with a certificateId: 'Certificate not found' on a
\* select error or no row, else valid = hashMatch
CallVerifySignature ==
  /\ calc.fn = "certificates"
  /\ \E file \in Files, certId \in CertIds, dbOk \in BOOLEAN :
       LET cert == calc.certificate_records[certId]
           documentHash == HashDocument(file)
           hashMatch == cert.document_hash = documentHash
       IN calc' = [calc EXCEPT !.verdict =
                     IF ~dbOk \/ ~cert.exists
                     THEN [NoVerdict EXCEPT !.by = "handleVerifySignature",
                                            !.file = file, !.certId = certId]
                     ELSE [by |-> "handleVerifySignature", file |-> file,
                           certId |-> certId, found |-> TRUE,
                           valid |-> hashMatch, hashMatch |-> hashMatch]]
  /\ UNCHANGED <<ledger, initial>>

\* verify_certificate(p_certificate_id, p_document_hash): no row when the id is
\* unknown, else valid from revoked_at and expires_at, hash_match apart
CallVerifyCertificate ==
  /\ calc.fn = "certificates"
  /\ \E file \in Files, certId \in CertIds :
       LET c == calc.certificate_records[certId]
       IN calc' = [calc EXCEPT !.verdict =
                     IF ~c.exists
                     THEN [NoVerdict EXCEPT !.by = "verify_certificate",
                                            !.file = file, !.certId = certId]
                     ELSE [by |-> "verify_certificate", file |-> file,
                           certId |-> certId, found |-> TRUE,
                           valid |-> ~c.revoked /\ ~c.expired,
                           hashMatch |-> c.document_hash = HashDocument(file)]]
  /\ UNCHANGED <<ledger, initial>>

NextCertificates ==
  \/ CallAddCertificate
  \/ Revoke
  \/ Expire
  \/ CallVerifySignature
  \/ CallVerifyCertificate

CertificateSpec == InitCertificates /\ [][NextCertificates]_vars

\* ------------------------------------------------------------ document editor
\* The client document model of the three editors: the editor page
\* (src/unnamed/part_004 524-611), the legacy editor page (part_004 1167-1290,
\* 1582-1589) and the embed editor (src/app/embed/page.tsx 65-102).  calc holds
\* the clock reading Date.now() returns, the pages with their elements, the
\* page being edited and the last export of generatePDF.

Editors == {"editor", "legacy", "embed"}

\* An element id is a string built from a prefix, the decimal clock reading and
\* a suffix; two ids are the same string exactly when the three parts agree.
ElementId(prefix, now, suffix) == <<prefix, now, suffix>>

InitEditor ==
  /\ user_credits = [u \in Users |-> NoRow]
  /\ transactions = <<>>
  /\ pc = [p \in Procs |-> "idle"]
  /\ req = [p \in Procs |-> NoRequest]
  /\ user = [p \in Procs |-> NoUser]
  /\ cur = [p \in Procs |-> 0]
  /\ resp = [p \in Procs |-> NoResponse]
  /\ hist = [p \in Procs |-> NoHist]
  /\ pre = [p \in Procs |-> NoPre]
  /\ initial = [u \in Users |-> 0]
  /\ \E e \in Editors :
          calc = [fn |-> "editor", editor |-> e, now |-> 0, pages |-> << <<>> >>,
                  currentPage |-> 0,
                  pdf |-> [exported |-> FALSE, document |-> <<>>, drawn |-> <<>>]]

\* [...page.elements, newElement] / elements.push(newElement) on pages[currentPage]
Pushed(elements) ==
    [calc EXCEPT !.pages[calc.currentPage + 1] = calc.pages[calc.currentPage + 1] \o elements]

Editing(editors, added) ==
    /\ calc.fn = "editor"
    /\ calc.editor \in editors
    /\ calc.currentPage < Len(calc.pages)
    /\ LET RECURSIVE Count(_)
           Count(k) == IF k = 0 THEN 0 ELSE Len(calc.pages[k]) + Count(k - 1)
       IN  Count(Len(calc.pages)) + added <= MaxElements

\* Date.now() read by a later handler: the clock has moved on.
Tick ==
    /\ calc.fn = "editor"
    /\ calc.now < MaxClock
    /\ calc' = [calc EXCEPT !.now = calc.now + 1]
    /\ UNCHANGED <<ledger, initial>>

addTextElement ==
    /\ Editing({"editor", "legacy"}, 1)
    /\ calc' = Pushed(<< [id |-> ElementId("", calc.now, ""), type |-> "text",
                          content |-> "x", imageUrl |-> <<>>, fontWeight |-> "", zIndex |-> <<>>] >>)
    /\ UNCHANGED <<ledger, initial>>

\* part_004 549-568 puts the address in content; part_004 1190-1207 in imageUrl
addImageElement ==
    /\ Editing({"editor", "legacy"}, 1)
    /\ calc' = Pushed(<< [id |-> ElementId("", calc.now, ""), type |-> "image",
                          content |-> IF calc.editor = "editor" THEN "x" ELSE "",
                          imageUrl |-> IF calc.editor = "editor" THEN <<>> ELSE <<"url">>,
                          fontWeight |-> "", zIndex |-> <<>>] >>)
    /\ UNCHANGED <<ledger, initial>>

addHeadingElement ==
    /\ Editing({"legacy"}, 1)
    /\ calc' = Pushed(<< [id |-> ElementId("", calc.now, ""), type |-> "text",
                          content |-> "x", imageUrl |-> <<>>, fontWeight |-> "bold", zIndex |-> <<>>] >>)
    /\ UNCHANGED <<ledger, initial>>

\* generateContent: one text element holding data.content
generateContent ==
    /\ Editing({"editor"}, 1)
    /\ \E content \in {"", "x"} :
          calc' = Pushed(<< [id |-> ElementId("", calc.now, ""), type |-> "text",
                             content |-> content, imageUrl |-> <<>>, fontWeight |-> "", zIndex |-> <<>>] >>)
    /\ UNCHANGED <<ledger, initial>>

\* generateWithAI: data.sections.map((section, index) => ...), one clock reading
\* per element, taken while the map runs
generateWithAI ==
    \E sections \in 1..MaxSections :
       /\ Editing({"legacy"}, sections)
       /\ calc' = Pushed([index \in 1..sections |->
                            [id |-> ElementId("ai-", calc.now, index - 1), type |-> "text",
                             content |-> "x", imageUrl |-> <<>>, fontWeight |-> "", zIndex |-> <<>>]])
       /\ UNCHANGED <<ledger, initial>>

addElement ==
    \E type \in {"text", "rectangle", "circle", "line"} :
       /\ Editing({"embed"}, 1)
       /\ calc' = Pushed(<< [id |-> ElementId(type, calc.now, ""), type |-> type,
                             content |-> IF type = "text" THEN "x" ELSE "",
                             imageUrl |-> <<>>, fontWeight |-> "", zIndex |-> <<>>] >>)
       /\ UNCHANGED <<ledger, initial>>

OnPage == IF calc.currentPage < Len(calc.pages) THEN calc.pages[calc.currentPage + 1] ELSE <<>>

deleteElement ==
    /\ calc.fn = "editor"
    /\ \E k \in DOMAIN OnPage :
          calc' = [calc EXCEPT !.pages[calc.currentPage + 1] =
                      SelectSeq(OnPage, LAMBDA el : el.id # OnPage[k].id)]
    /\ UNCHANGED <<ledger, initial>>

\* elements.map(el => el.id === elementId ? {...el, ...updates} : el) in the
\* editor; elements[findIndex(el => el.id === id)] = {...} in the other two
Updated(elements, id, content) ==
    LET first == CHOOSE k \in DOMAIN elements :
                    /\ elements[k].id = id
                    /\ \A j \in 1..(k - 1) : elements[j].id # id
    IN  [k \in DOMAIN elements |->
            IF elements[k].id = id /\ (calc.editor = "editor" \/ k = first)
            THEN [elements[k] EXCEPT !.content = content]
            ELSE elements[k]]

updateElement ==
    /\ calc.fn = "editor"
    /\ \E k \in DOMAIN OnPage : \E content \in {"", "x"} :
          /\ content # OnPage[k].content
          /\ calc' = [calc EXCEPT !.pages[calc.currentPage + 1] =
                         Updated(OnPage, OnPage[k].id, content)]
    /\ UNCHANGED <<ledger, initial>>

\* addPage (part_004 597-610) and the Next / Add Page button (part_004 1582-1589)
addPage ==
    /\ calc.fn = "editor"
    /\ calc.editor \in {"editor", "legacy"}
    /\ Len(calc.pages) < MaxDocPages
    /\ calc.editor = "legacy" => calc.currentPage = Len(calc.pages) - 1
    /\ calc' = [calc EXCEPT !.pages = Append(calc.pages, <<>>),
                            !.currentPage = Len(calc.pages)]
    /\ UNCHANGED <<ledger, initial>>

\* generatePDF (src/unnamed/part_000 16-75) ----------------------------------

\* a.zIndex || 0
ZIndex(element) == IF element.zIndex = <<>> THEN 0 ELSE element.zIndex[1]

\* [...page.elements].sort((a, b) => (a.zIndex || 0) - (b.zIndex || 0)): the
\* sort is stable
RECURSIVE InsertByZ(_, _)
InsertByZ(sorted, element) ==
    IF sorted = <<>> THEN <<element>>
    ELSE IF ZIndex(sorted[Len(sorted)]) <= ZIndex(element) THEN Append(sorted, element)
    ELSE Append(InsertByZ(SubSeq(sorted, 1, Len(sorted) - 1), element), sorted[Len(sorted)])

RECURSIVE SortByZ(_)
SortByZ(elements) ==
    IF elements = <<>> THEN <<>>
    ELSE InsertByZ(SortByZ(SubSeq(elements, 1, Len(elements) - 1)), elements[Len(elements)])

\* renderTextElement returns at once without content, renderImageElement without
\* imageUrl; the switch has no case for any other type than these four
Draws(element) ==
    CASE element.type = "text"  -> element.content # ""
      [] element.type = "image" -> element.imageUrl # <<>>
      [] element.type = "shape" -> TRUE
      [] element.type = "line"  -> TRUE
      [] OTHER -> FALSE

generatePDF(pages) ==
    [pageIndex \in DOMAIN pages |-> SelectSeq(SortByZ(pages[pageIndex]), Draws)]

exportPDF ==
    /\ calc.fn = "editor"
    /\ calc.editor \in {"editor", "legacy"}
    /\ calc' = [calc EXCEPT !.pdf = [exported |-> TRUE, document |-> calc.pages,
                                     drawn |-> generatePDF(calc.pages)]]
    /\ UNCHANGED <<ledger, initial>>

NextEditor ==
    \/ Tick
    \/ addTextElement
    \/ addImageElement
    \/ addHeadingElement
    \/ generateContent
    \/ generateWithAI
    \/ addElement
    \/ deleteElement
    \/ updateElement
    \/ addPage
    \/ exportPDF

EditorSpec == InitEditor /\ [][NextEditor]_vars

\* ------------------------------------------------------------- saveDocument
\* The save flow of the two editor pages: saveDocument inserts the document
\* into pdf_documents and then posts to /credits/deduct, whose steps are the
\* Deduct actions above.  calc holds, per client, the balance the page shows
\* and whether its insert left a row.

\* CREDIT_COST of the editor page (part_004 424); the legacy page sends 20
SaveCost(editor) == IF editor = "editor" THEN 5 ELSE 20

InitSave ==
  /\ user_credits \in [Users -> {NoRow} \cup {Row(c) : c \in {0, SaveCost("editor"), SaveCost("legacy")}}]
  /\ transactions = <<>>
  /\ pc = [p \in Procs |-> "idle"]
  /\ req = [p \in Procs |-> NoRequest]
  /\ user = [p \in Procs |-> NoUser]
  /\ cur = [p \in Procs |-> 0]
  /\ resp = [p \in Procs |-> NoResponse]
  /\ hist = [p \in Procs |-> NoHist]
  /\ pre = [p \in Procs |-> NoPre]
  /\ initial = [u \in Users |-> ReadCredits(user_credits[u])]
  /\ \E e \in {"editor", "legacy"} : \E shown \in {0, SaveCost("editor")} :
       calc = [fn |-> "save", editor |-> e, credits |-> shown,
               saved |-> [p \in Procs |-> FALSE]]

\* saveDocument up to its insert: the editor page returns when the balance it
\* shows is below CREDIT_COST or it holds no token; both pages throw when
\* getUser finds no user
SaveStart(p) ==
  /\ calc.fn = "save"
  /\ pc[p] = "idle"
  /\ \E authToken \in BOOLEAN : \E signedIn \in BOOLEAN :
       IF \/ calc.editor = "editor" /\ (calc.credits < SaveCost("editor") \/ ~authToken)
          \/ ~signedIn
       THEN /\ pc' = [pc EXCEPT ![p] = "done"]
            /\ UNCHANGED user
       ELSE /\ pc' = [pc EXCEPT ![p] = "s_insert"]
            /\ user' = [user EXCEPT ![p] = "u1"]
  /\ pre' = [pre EXCEPT ![p] = [exists |-> user_credits["u1"].exists,
                                credits |-> ReadCredits(user_credits["u1"]),
                                ntx |-> Len(transactions)]]
  /\ UNCHANGED <<user_credits, transactions, req, cur, resp, hist, aux>>

\* insert into pdf_documents (saveError is thrown), then the fetch of
\* /api/credits/deduct: the editor page sends a bearer token and the body
\* {amount, reason}, the legacy page no header and {user_id, amount, reason}
SaveInsert(p) ==
  /\ pc[p] = "s_insert"
  /\ \E dbOk \in BOOLEAN :
       IF dbOk
       THEN /\ calc' = [calc EXCEPT !.saved[p] = TRUE]
            /\ req' = [req EXCEPT ![p] =
                 [Req("deduct") EXCEPT
                    !.user_id = IF calc.editor = "editor" THEN NoUser ELSE user[p],
                    !.amount = SaveCost(calc.editor),
                    !.hdr = IF calc.editor = "editor"
                            THEN Header("Bearer ", "tok_u1") ELSE NoHeader]]
            /\ pc' = [pc EXCEPT ![p] = "d_validate"]
            /\ UNCHANGED initial
       ELSE /\ pc' = [pc EXCEPT ![p] = "done"]
            /\ UNCHANGED <<req, aux>>
  /\ UNCHANGED <<user_credits, transactions, user, cur, resp, hist, pre>>

NextSave ==
  \E p \in Procs :
    \/ SaveStart(p)
    \/ SaveInsert(p)
    \/ DeductValidate(p)
    \/ DeductSelect(p)
    \/ DeductUpdate(p)
    \/ DeductInsert(p)

SaveSpec == InitSave /\ [][NextSave]_vars

\* ===================================================================== claims
IsDispatch(p) == req[p].kind = "dispatch"

\* the operation name is a key of the route's cost table
KnownOp(p) == req[p].op # "" /\ req[p].op \in DOMAIN CREDIT_COSTS(req[p].route)

TableCost(p) == CREDIT_COSTS(req[p].route)[req[p].op]

\* the stored balance of a user, an absent row counting as 0
Balance(u) == ReadCredits(user_credits[u])

BalanceNext(u) == ReadCredits(user_credits'[u])

\* the process takes a step
Moves(p) == pc'[p] # pc[p]

\* the header or token is one the dispatcher must refuse
BadCredentials(hdr) ==
  \/ ~hdr.present
  \/ hdr.prefix # "Bearer "
  \/ hdr.token \notin DOMAIN TokenUser

\* C1: in every run of a paid-operation dispatcher the steps come in the order
\* authenticate, credit check, handler, settle: the credit check is made only
\* for an authenticated user, the handler runs only after authentication
\* succeeded and the balance read covered the cost, and the deduction is issued
\* only after the handler returned successfully.
C1_StrictOrder ==
  \A p \in Procs : IsDispatch(p) =>
    /\ (hist[p].balRead => hist[p].authOk /\ user[p] \in Users)
    /\ (pc[p] = "r_handler" \/ hist[p].handlerRan =>
          /\ hist[p].authOk /\ hist[p].balRead /\ hist[p].checkOk
          /\ KnownOp(p) => cur[p] >= TableCost(p))
    /\ (pc[p] \in {"r_settle", "r_log"} \/ hist[p].deductIssued =>
          hist[p].handlerRan /\ hist[p].handlerOk)
    /\ (hist[p].handlerRan => ~InvalidOperation(req[p].route, req[p].op))

C1_Witness ==
  \E p \in Procs :
    /\ IsDispatch(p) /\ pc[p] = "done" /\ resp[p].status = 200
    /\ hist[p].authOk /\ hist[p].checkOk /\ hist[p].handlerOk
    /\ hist[p].deductIssued /\ ~hist[p].deductFailed

\* C2: a POST whose operation name is missing or is not a key of the route's
\* cost table is answered 400 before authentication: no auth call, no balance
\* read, no handler call and no deduction.
C2_UnknownOperationRejected ==
  \A p \in Procs :
    IsDispatch(p) /\ ~KnownOp(p) /\ pc[p] # "r_resolve" =>
      /\ pc[p] = "done" /\ resp[p].status = 400
      /\ ~hist[p].authOk /\ ~hist[p].balRead
      /\ ~hist[p].handlerRan /\ ~hist[p].deductIssued

\* C3: a request with a known operation name but a missing Authorization
\* header, a header not starting with 'Bearer ', or a rejected token is answered
\* 401; the balance is not read, no handler runs, and no step of the request up
\* to the 401 changes the balance or the audit log.
C3_Unauthorized ==
  /\ [](\A p \in Procs :
          IsDispatch(p) /\ KnownOp(p) /\ pc[p] \notin {"r_resolve", "r_auth"}
            /\ BadCredentials(req[p].hdr) =>
              /\ pc[p] = "done" /\ resp[p].status = 401
              /\ ~hist[p].balRead /\ ~hist[p].handlerRan /\ ~hist[p].deductIssued)
  /\ [][\A p \in Procs :
          pc[p] \in {"r_resolve", "r_auth"} /\ Moves(p) =>
            UNCHANGED <<user_credits, transactions>>]_vars

C3_Witness ==
  \E p \in Procs :
    /\ IsDispatch(p) /\ KnownOp(p) /\ pc[p] = "done" /\ resp[p].status = 401
    /\ req[p].hdr.present /\ req[p].hdr.prefix = "Basic "

\* C4: when the balance an authenticated request read is below the operation's
\* cost, the answer is 402 with required = cost and available = the balance
\* read (the stored balance when the read succeeded), the handler is not
\* invoked, and the credit check leaves the stored balance and the log unchanged.
C4_InsufficientCredits ==
  /\ [](\A p \in Procs :
          IsDispatch(p) /\ KnownOp(p) /\ hist[p].balRead /\ cur[p] < TableCost(p) =>
            /\ pc[p] = "done" /\ resp[p].status = 402
            /\ resp[p].required = TableCost(p)
            /\ resp[p].available = cur[p]
            /\ ~hist[p].handlerRan /\ ~hist[p].deductIssued)
  /\ [][\A p \in Procs :
          pc[p] = "r_check" /\ Moves(p) =>
            /\ UNCHANGED <<user_credits, transactions>>
            /\ cur'[p] = IF hist'[p].dbFailed THEN 0 ELSE Balance(user[p])]_vars

C4_Witness ==
  \E p \in Procs :
    /\ IsDispatch(p) /\ pc[p] = "done" /\ resp[p].status = 402
    /\ TableCost(p) = 3 /\ resp[p].required = 3 /\ resp[p].available = 1
    /\ Balance(user[p]) = 1

\* C5: if the handler throws after authentication and the credit check passed,
\* the request is answered 500 and is not charged: no deduction is issued and
\* no step of the request changes the balance or the credit_transactions log.
C5_HandlerFailureNotCharged ==
  /\ [](\A p \in Procs :
          IsDispatch(p) /\ hist[p].handlerRan /\ ~hist[p].handlerOk =>
            /\ pc[p] = "done" /\ resp[p].status = 500
            /\ ~hist[p].deductIssued)
  /\ [][\A p \in Procs :
          IsDispatch(p) /\ Moves(p) /\ hist'[p].handlerRan /\ ~hist'[p].handlerOk =>
            UNCHANGED <<user_credits, transactions>>]_vars
  /\ [][\A p \in Procs :
          pc[p] \in {"r_resolve", "r_auth", "r_check", "r_handler"} /\ Moves(p) =>
            UNCHANGED <<user_credits, transactions>>]_vars

C5_Witness ==
  \E p \in Procs :
    /\ IsDispatch(p) /\ pc[p] = "done" /\ resp[p].status = 500
    /\ hist[p].checkOk /\ hist[p].handlerRan /\ ~hist[p].handlerOk

IsSettle(p) == req[p].kind \in {"settle", "deduct"}

\* the caller is told the settle failed
Failure(r) ==
  \/ r.body = "throw"
  \/ r.body = "return" /\ ~r.success
  \/ r.body = "error" /\ r.status \in {402, 500}

\* C6: if the deduction fails after the handler produced its result, every
\* dispatcher still returns the result, flagged as not correctly charged (the
\* response differs from the one a charged request gets).
C6_SettleFailureFlagged ==
  \A p \in Procs :
    IsDispatch(p) /\ pc[p] = "done" /\ hist[p].handlerOk /\ hist[p].deductFailed =>
      /\ resp[p].status = 200 /\ resp[p].body = "result"
      /\ resp[p] # ResultResponse(TableCost(p))

\* C7: a settle (deductCreditsAtomic or POST /credits/deduct) that finds the
\* stored balance below the requested amount returns a failure, and none of
\* its steps changes the stored balance or writes a credit_transactions row.
C7_InsufficientSettleWritesNothing ==
  /\ [](\A p \in Procs :
          IsSettle(p) /\ hist[p].balRead /\ cur[p] < req[p].amount =>
            /\ pc[p] \in {"l_create", "done"}
            /\ ~hist[p].updated
            /\ pc[p] = "done" => Failure(resp[p]))
  /\ [][\A p \in Procs :
          /\ IsSettle(p) /\ Moves(p)
          /\ pc[p] \in {"l_select", "l_create", "d_select"}
          /\ Balance(req[p].user_id) < req[p].amount
          => /\ BalanceNext(req[p].user_id) = Balance(req[p].user_id)
             /\ UNCHANGED transactions
             /\ pc'[p] \in {"l_create", "done"}
             /\ pc'[p] = "done" => Failure(resp'[p])]_vars

C7_Witness ==
  \E p \in Procs :
    /\ req[p].kind = "settle" /\ pc[p] = "done" /\ pre[p].exists
    /\ hist[p].balRead /\ cur[p] < req[p].amount
    /\ Failure(resp[p]) /\ Balance(req[p].user_id) = cur[p]

\* C8: with requests served one at a time and no datastore failure, a settle
\* of cost c on a stored balance b with c <= b returns success with
\* remaining = b - c, appends one audit row with amount -c, and getBalance
\* then returns b - c; a successful merge lowers the caller's balance by 2.
C8_SequentialSettle ==
  [][\A p \in Procs :
       Moves(p) /\ pc'[p] = "done" /\ ~hist'[p].dbFailed =>
         /\ req[p].kind = "settle" /\ pre[p].exists
              /\ req[p].amount <= pre[p].credits =>
              /\ resp'[p].body = "return" /\ resp'[p].success
              /\ resp'[p].remaining = pre[p].credits - req[p].amount
              /\ GetBalance(user_credits', req[p].user_id)
                   = pre[p].credits - req[p].amount
              /\ Len(transactions') = pre[p].ntx + 1
              /\ transactions'[pre[p].ntx + 1] =
                   [user_id |-> req[p].user_id, amount |-> -req[p].amount]
         /\ IsDispatch(p) /\ req[p].route = "pdf-operations"
              /\ req[p].op = "merge" /\ resp'[p].status = 200 =>
              GetBalance(user_credits', user[p]) = pre[p].credits - 2]_vars

C8_Witness ==
  \E p \in Procs :
    /\ req[p].kind = "settle" /\ pc[p] = "done" /\ ~hist[p].dbFailed
    /\ pre[p].exists /\ pre[p].credits = 3 /\ req[p].amount = 2
    /\ resp[p].success /\ resp[p].remaining = 1
    /\ Balance(req[p].user_id) = 1
    /\ Len(transactions) = pre[p].ntx + 1

\* C9: in a settle, if the audit-row insert fails after the balance was
\* written as current - cost for a positive cost (and the compensating write
\* itself does not fail), the caller gets a failure and the stored balance after the call
\* equals the balance before it.
C9_InsertFailureCompensated ==
  [][\A p \in Procs :
       /\ IsSettle(p) /\ Moves(p) /\ pc'[p] = "done"
       /\ req[p].amount > 0
       /\ hist'[p].updated /\ hist'[p].insertFailed /\ ~hist'[p].rollbackFailed
       => /\ Failure(resp'[p])
          /\ BalanceNext(req[p].user_id) = pre[p].credits]_vars

RECURSIVE SumAmounts(_, _)
SumAmounts(txs, u) ==
  IF txs = <<>> THEN 0
  ELSE (IF Head(txs).user_id = u THEN Head(txs).amount ELSE 0)
         + SumAmounts(Tail(txs), u)

\* no request is in progress
Quiescent == \A p \in Procs : pc[p] \in {"idle", "done"}

\* C12: whenever no ledger operation is in progress, each user's balance equals
\* the initial balance plus the sum of the amounts logged for that user. Stated
\* for runs of settle, /credits/deduct and webhook requests in which no
\* datastore call failed.
C12_LogReconciles ==
  Quiescent
    /\ (\A p \in Procs : req[p].kind \in {"none", "settle", "deduct", "webhook"})
    /\ (\A p \in Procs : ~hist[p].dbFailed /\ ~hist[p].insertFailed
                           /\ ~hist[p].rollbackFailed /\ ~hist[p].rolledBack) =>
      \A u \in Users : Balance(u) = initial[u] + SumAmounts(transactions, u)

\* the awaits of the ledger: checkUserCredits and deductCreditsAtomic in
\* lib/supabase-client.ts, and the dispatchers' deduct_credits call
LedgerSteps == {"l_select", "l_create", "l_update", "l_insert", "l_rollback",
                "r_settle"}

\* C13: every write to a user's balance row is made by a step of the ledger's
\* settle path: no route and no webhook writes the row directly.
C13_WritesThroughSettle ==
  [][user_credits' # user_credits =>
       \E p \in Procs : Moves(p) /\ pc[p] \in LedgerSteps]_vars

\* a /credits/deduct request without a valid bearer token changes no balance
DeductNoTokenNoWrite ==
  [][\A p \in Procs :
       req[p].kind = "deduct" /\ Moves(p) /\ BadCredentials(req[p].hdr) =>
         UNCHANGED user_credits]_vars

\* a /credits/deduct request with a valid token and the body {amount, reason}
\* (no user_id), no datastore call failing, is answered 200 with success or 402
DeductBodyWithoutUserId ==
  \A p \in Procs :
    /\ req[p].kind = "deduct" /\ pc[p] = "done"
    /\ ~BadCredentials(req[p].hdr)
    /\ req[p].user_id = NoUser /\ req[p].amount > 0
    /\ ~hist[p].dbFailed
    => \/ resp[p].status = 200 /\ resp[p].success
       \/ resp[p].status = 402

\* C14: POST /credits/deduct requires bearer authentication and deducts only
\* from the authenticated caller: a request without a valid bearer token never
\* changes a balance, and a request with a valid token whose body is
\* {amount, reason} is answered {success, remaining_credits} or 402.
C14_DeductRequiresBearer ==
  DeductNoTokenNoWrite /\ []DeductBodyWithoutUserId

\* the process served a verified checkout.session.completed delivery that
\* names a user and a known price, and none of its datastore calls failed
GrantDelivered(p) ==
  /\ req[p].kind = "webhook" /\ pc[p] = "done"
  /\ req[p].sig = "ok" /\ req[p].etype = "checkout.session.completed"
  /\ req[p].user_id \in Users /\ CreditsToAdd(req[p].price) > 0
  /\ ~hist[p].dbFailed

\* C15: the webhook is idempotent per event id: after the same
\* checkout.session.completed event was delivered twice, one delivery after the
\* other, the balance and the transaction log are what a single delivery
\* leaves: the credits granted once and one log row.
C15_WebhookIdempotent ==
  \A p \in Procs : \A q \in Procs \ {p} :
    GrantDelivered(p) /\ GrantDelivered(q) /\ req[p] = req[q] =>
      /\ Balance(req[p].user_id) =
           initial[req[p].user_id] + CreditsToAdd(req[p].price)
      /\ Len(transactions) = 1

\* the fixed table as the claim prints it, grouped by dispatcher
ClaimedCosts(route) ==
  IF route = "pdf-forms"
  THEN [fill |-> 3, create_form |-> 5, flatten_form |-> 2, extract_fields |-> 1]
  ELSE CREDIT_COSTS(route)

\* C16 as stated: the names the dispatchers accept and their costs are the
\* printed table (create_form=5, flatten_form=2 among them): a request naming
\* an entry of the table on its dispatcher is not rejected as an invalid
\* operation, and a successful response reports the printed cost.
C16_PrintedTable ==
  \A p \in Procs :
    IsDispatch(p) /\ pc[p] = "done"
      /\ req[p].op \in DOMAIN ClaimedCosts(req[p].route) =>
        /\ resp[p].status # 400
        /\ resp[p].status = 200 =>
             resp[p].creditsUsed = ClaimedCosts(req[p].route)[req[p].op]

\* the costs of the source, name by name
SourceCosts ==
  [merge |-> 2, split |-> 2, rotate |-> 1, compress |-> 3, watermark |-> 2,
   protect |-> 2, unlock |-> 3, extract_pages |-> 1, add_page_numbers |-> 1,
   delete_pages |-> 1, reorder_pages |-> 1,
   sign |-> 3, add_initials |-> 2, add_date_stamp |-> 1, add_certificate |-> 5,
   verify |-> 1,
   fill |-> 3, create |-> 5, flatten |-> 2, extract_fields |-> 1]
  @@ ("images-to-pdf" :> 2) @@ ("html-to-pdf" :> 3)
  @@ ("markdown-to-pdf" :> 2) @@ ("text-to-pdf" :> 1)

\* C16: the cost tables are the printed one with the form operations named
\* create=5 and flatten=2: a request naming a key of its dispatcher's table is
\* never rejected as an invalid operation, create_form and flatten_form are
\* rejected with 400, and the X-Credits-Used / creditsUsed of every successful
\* response is the table cost of the requested operation.
C16_CostTable ==
  \A p \in Procs :
    IsDispatch(p) /\ pc[p] = "done" =>
      /\ KnownOp(p) => resp[p].status # 400
      /\ req[p].op \in ForeignNames => resp[p].status = 400
      /\ resp[p].status = 200 =>
           /\ KnownOp(p)
           /\ resp[p].creditsUsed = SourceCosts[req[p].op]
      /\ resp[p].status = 402 /\ KnownOp(p) =>
           resp[p].required = SourceCosts[req[p].op]

\* pdf-forms served create, deducted its cost and reported 5 credits
C16_Witness ==
  \E p \in Procs :
    /\ IsDispatch(p) /\ pc[p] = "done" /\ resp[p].status = 200
    /\ req[p].route = "pdf-forms" /\ req[p].op = "create"
    /\ resp[p].creditsUsed = 5
    /\ hist[p].deductIssued /\ ~hist[p].deductFailed

\* C17: every name a dispatcher accepts has both a cost and a handler: a
\* request naming a key of the cost table never passes authentication and the
\* credit check to end in 'not implemented' (501).
C17_AcceptedHasHandler ==
  \A p \in Procs :
    IsDispatch(p) /\ KnownOp(p) /\ pc[p] = "done" => resp[p].status # 501

\* the payload misses a required file or parameter, the operation has a
\* handler, and the caller is authenticated
Malformed(p) ==
  /\ IsDispatch(p) /\ req[p].payload = "malformed"
  /\ KnownOp(p) /\ req[p].op \in HANDLERS(req[p].route)
  /\ hist[p].authOk

\* C18 as stated: a validation error is surfaced before any credit check: an
\* authenticated request with a malformed payload is never answered 402 and
\* the balance is not read for it.
C18_ValidationBeforeCheck ==
  \A p \in Procs :
    Malformed(p) /\ pc[p] = "done" =>
      resp[p].status # 402 /\ ~hist[p].balRead

\* C18: validation is made by the handler, after authentication and the
\* credit check: an authenticated request with a malformed payload is answered
\* 402 when the balance read is below the cost, and otherwise the handler's
\* error as a 500, with no deduction issued; no step of it changes the balance
\* or the log.
C18_ValidationInHandler ==
  /\ [](\A p \in Procs :
          Malformed(p) /\ pc[p] = "done" =>
            /\ hist[p].balRead
            /\ cur[p] < TableCost(p) =>
                 resp[p].status = 402 /\ ~hist[p].handlerRan
            /\ cur[p] >= TableCost(p) =>
                 /\ resp[p].status = 500
                 /\ hist[p].handlerRan /\ ~hist[p].handlerOk
            /\ ~hist[p].deductIssued)
  /\ [][\A p \in Procs :
          IsDispatch(p) /\ req[p].payload = "malformed" /\ Moves(p) =>
            UNCHANGED <<user_credits, transactions>>]_vars

\* a malformed payload reached the handler, which threw
C18_Witness ==
  \E p \in Procs :
    /\ Malformed(p) /\ pc[p] = "done" /\ resp[p].status = 500
    /\ hist[p].handlerRan /\ ~hist[p].handlerOk
    /\ Balance(user[p]) >= TableCost(p)

\* ---- page-range expressions as the claim defines them
IsNumber(s) == s # <<>> /\ \A i \in 1..Len(s) : s[i] \in DOMAIN Digit

IsBlank(s) == \A i \in 1..Len(s) : s[i] = " "

\* the value of a string of digits
RECURSIVE ValueOf(_)
ValueOf(s) ==
  IF s = <<>> THEN 0 ELSE 10 * ValueOf(SubSeq(s, 1, Len(s) - 1)) + Digit[s[Len(s)]]

\* the item without the blanks around it
Core(s) ==
  LET first == CHOOSE i \in 1..(Len(s) + 1) :
                 /\ i = Len(s) + 1 \/ s[i] # " "
                 /\ \A k \in 1..(i - 1) : s[k] = " "
      last == CHOOSE j \in 0..Len(s) :
                /\ j = 0 \/ s[j] # " "
                /\ \A k \in (j + 1)..Len(s) : s[k] = " "
  IN SubSeq(s, first, last)

\* item is a single page: a number with blanks around it
IsSinglePage(item) == IsNumber(Core(item))

\* item is a range a-b with its '-' at position d
IsPageRange(item, d) ==
  /\ item[d] = "-"
  /\ IsNumber(Core(SubSeq(item, 1, d - 1)))
  /\ IsNumber(Core(SubSeq(item, d + 1, Len(item))))

\* the 1-indexed pages an item names, none when it is no item
ItemPages(item, n) ==
  {pg \in 1..n :
     \/ IsSinglePage(item) /\ pg = ValueOf(Core(item))
     \/ \E d \in 1..Len(item) :
          /\ IsPageRange(item, d)
          /\ ValueOf(Core(SubSeq(item, 1, d - 1))) <= pg
          /\ pg <= ValueOf(Core(SubSeq(item, d + 1, Len(item))))}

IsItem(item) ==
  IsSinglePage(item) \/ \E d \in 1..Len(item) : IsPageRange(item, d)

\* positions a..b of r hold one item of the comma-separated list
IsSegment(r, a, b) ==
  /\ a <= b + 1
  /\ a = 1 \/ r[a - 1] = ","
  /\ b = Len(r) \/ r[b + 1] = ","
  /\ \A i \in a..b : r[i] # ","

Segments(r) ==
  {SubSeq(r, ab[1], ab[2]) :
     ab \in {ab \in (1..(Len(r) + 1)) \X (0..Len(r)) : IsSegment(r, ab[1], ab[2])}}

\* r is a page-range expression: every comma-separated part is a single page
\* or a range a-b
WellFormed(r) == \A item \in Segments(r) : IsItem(item)

\* the 0-indexed positions of the pages r names, clipped to n pages
NamedPositions(r, n) ==
  {pg - 1 : pg \in UNION {ItemPages(item, n) : item \in Segments(r)}}

\* C19: for every page-range expression r and page count n, parsePageRange(r, n)
\* returns a strictly ascending, duplicate-free sequence of integers within
\* [0, n); when r is well formed (comma-separated single pages and a-b ranges)
\* its elements are the 0-indexed positions of the named pages clipped to the
\* document.
C19_ParsePageRange ==
  calc.fn = "parsePageRange" /\ calc.done =>
    LET out == calc.result
    IN /\ \A i \in 1..Len(out) : out[i] \in 0..(calc.n - 1)
       /\ \A i \in 1..(Len(out) - 1) : out[i] < out[i + 1]
       /\ WellFormed(calc.range) =>
            {out[i] : i \in 1..Len(out)} = NamedPositions(calc.range, calc.n)

\* "2,1-2" on a two-page document: a range and a single page that repeats one
\* of its pages, given out of order
C19_Witness ==
  /\ calc.fn = "parsePageRange" /\ calc.done
  /\ calc.range = <<"2", ",", "1", "-", "2">>
  /\ WellFormed(calc.range)
  /\ calc.n = 2
  /\ calc.result = <<0, 1>>

\* the order is a comma-separated list of page numbers
IsOrderList(r) == \A item \in Segments(r) : IsSinglePage(item)

\* C20: reorder_pages rejects every order whose length differs from the page
\* count or that is not a bijection onto [1, n]; when it accepts, output page i
\* is the original page order[i]. Stated for orders that are comma-separated
\* lists of numbers.
C20_ReorderBijection ==
  calc.fn = "handleReorderPages" /\ calc.done /\ calc.accepted
    /\ IsOrderList(calc.range) =>
      LET out == calc.result
      IN /\ Len(out) = calc.n
         /\ \A pg \in 0..(calc.n - 1) : \E i \in 1..Len(out) : out[i] = pg
         /\ \A i \in 1..Len(out) :
              out[i] = ValueOf(Core(Split(calc.range, ",")[i])) - 1

\* ---- rotate
\* the six angle parameters the claim admits, with their values
AdmittedAngles ==
  {<<<<"9", "0">>, 90>>, <<<<"1", "8", "0">>, 180>>, <<<<"2", "7", "0">>, 270>>,
   <<<<"-", "9", "0">>, -90>>, <<<<"-", "1", "8", "0">>, -180>>,
   <<<<"-", "2", "7", "0">>, -270>>}

AdmittedValue(a) == (CHOOSE e \in AdmittedAngles : e[1] = a)[2]

IsAdmitted(a) == \E e \in AdmittedAngles : e[1] = a

\* the 0-indexed positions the pages parameter selects on n pages
Selected(pages, n) ==
  CASE pages.kw \in {"", "all"} -> 0..(n - 1)
    [] pages.kw = "odd"         -> {i \in 0..(n - 1) : i % 2 = 0}
    [] pages.kw = "even"        -> {i \in 0..(n - 1) : i % 2 = 1}
    [] pages.kw = "range"       -> NamedPositions(pages.range, n)

\* C21: rotate adds the angle to the rotation of exactly the selected pages and
\* leaves every other page's rotation unchanged; rotating by a and then by -a
\* on the same selection returns every page to its original rotation; pages=odd
\* on a 4-page document selects positions 0 and 2.
C21_RotateAdds ==
  calc.fn = "handleRotate" =>
    LET n == Len(calc.original)
        sel == Selected(calc.pages, n)
    IN /\ Len(calc.rot) = n
       /\ Len(calc.calls) = 1 /\ calc.calls[1].ok /\ IsAdmitted(calc.calls[1].angle) =>
            \A i \in 1..n :
              calc.rot[i] = IF (i - 1) \in sel
                            THEN calc.original[i] + AdmittedValue(calc.calls[1].angle)
                            ELSE calc.original[i]
       /\ Len(calc.calls) = 2 /\ calc.calls[2].ok
            /\ IsAdmitted(calc.calls[1].angle) /\ IsAdmitted(calc.calls[2].angle)
            /\ AdmittedValue(calc.calls[2].angle) = 0 - AdmittedValue(calc.calls[1].angle) =>
              calc.rot = calc.original
       /\ calc.pages.kw = "odd" /\ n = 4 /\ Len(calc.calls) = 1 /\ calc.calls[1].ok =>
            {i \in 1..n : calc.rot[i] # calc.original[i]} = {1, 3}

\* a 4-page document rotated by 90 and then by -90 on its odd pages
C21_Witness ==
  /\ calc.fn = "handleRotate" /\ Len(calc.original) = 4
  /\ calc.pages.kw = "odd"
  /\ Len(calc.calls) = 2 /\ calc.calls[2].ok
  /\ calc.calls[1].angle = <<"9", "0">> /\ calc.calls[2].angle = <<"-", "9", "0">>
  /\ calc.original = <<0, 90, 270, 0>>
  /\ calc.rot = calc.original

\* C22: rotate accepts only the angles 90, 180, 270, -90, -180, -270: a request
\* whose angle parameter is any other value, 0 and a non-numeric string
\* included, fails and rotates no page.
C22_OnlySixAngles ==
  calc.fn = "handleRotate" /\ Len(calc.calls) = 1
    /\ calc.calls[1].angle # <<>> /\ ~IsAdmitted(calc.calls[1].angle) =>
      ~calc.calls[1].ok /\ calc.rot = calc.original

\* ---- delete_pages
\* C23: delete_pages (given a pages parameter) fails, and never produces a
\* 0-page document, whenever the resolved deletion set is all pages of the
\* document; otherwise the output holds exactly the pages not in the deletion
\* set, in their original order.
C23_DeletePages ==
  calc.fn = "handleDeletePages" /\ calc.done /\ calc.range # <<>> =>
    LET resolved == parsePageRange(calc.range, calc.n)
        deleted == {resolved[i] : i \in 1..Len(resolved)}
        all == 0..(calc.n - 1)
        out == calc.result
    IN /\ deleted = all => ~calc.accepted
       /\ calc.accepted => Len(out) > 0
       /\ deleted # all =>
            /\ calc.accepted
            /\ {out[i] : i \in 1..Len(out)} = all \ deleted
            /\ \A i \in 1..(Len(out) - 1) : out[i] < out[i + 1]

\* "1-2" on a two-page document is refused
C23_Witness ==
  /\ calc.fn = "handleDeletePages" /\ calc.done
  /\ calc.range = <<"1", "-", "2">> /\ calc.n = 2
  /\ ~calc.accepted

\* ---- certificates
\* C24: certificate verify reports valid = true only if the presented
\* document's hash equals the stored hash and the certificate is neither
\* revoked nor expired; in particular it reports valid = false whenever the
\* hashes differ.
C24_ValidOnlyIf ==
  calc.fn = "certificates" /\ calc.verdict.by # "none" /\ calc.verdict.valid =>
    LET c == calc.certificate_records[calc.verdict.certId]
    IN /\ c.exists
       /\ c.document_hash = HashDocument(calc.verdict.file)
       /\ ~c.revoked
       /\ ~c.expired

\* C30: verifying the document add_certificate returned against the
\* certificate id issued in the same response reports valid = true, the
\* certificate having been stored and neither revoked nor expired.
C30_RoundTrip ==
  calc.fn = "certificates" /\ calc.verdict.by = "handleVerifySignature" =>
    \A i \in 1..Len(calc.issued) :
      /\ calc.issued[i].stored
      /\ calc.issued[i].pdf = calc.verdict.file
      /\ calc.issued[i].certId = calc.verdict.certId
      /\ ~calc.certificate_records[calc.verdict.certId].revoked
      /\ ~calc.certificate_records[calc.verdict.certId].expired
      => calc.verdict.valid

\* ---------------------------------------------------------------- C25, C26
AllElements ==
    LET RECURSIVE Flat(_)
        Flat(k) == IF k = 0 THEN <<>> ELSE Flat(k - 1) \o calc.pages[k]
    IN  Flat(Len(calc.pages))

\* C25: element ids are unique within a document after any sequence of editor
\* actions (add text, add image, add heading, AI-generated elements, delete,
\* update, add page), two adds at the same clock reading included: no two
\* elements of the document carry the same id.
C25_UniqueIds ==
    calc.fn = "editor" =>
        \A i \in DOMAIN AllElements : \A j \in DOMAIN AllElements :
            i # j => AllElements[i].id # AllElements[j].id

ZOf(element) == IF element.zIndex = <<>> THEN 0 ELSE element.zIndex[1]

\* drawn lists every element of the page once, by ascending zIndex, elements
\* of equal zIndex in the order of the page
ShowsAllInZOrder(elements, drawn) ==
    /\ Len(drawn) = Len(elements)
    /\ \E f \in [DOMAIN elements -> DOMAIN elements] :
          /\ \A k \in DOMAIN elements : drawn[k] = elements[f[k]]
          /\ \A k \in DOMAIN elements : \A l \in DOMAIN elements :
                k < l => \/ ZOf(elements[f[k]]) < ZOf(elements[f[l]])
                         \/ /\ ZOf(elements[f[k]]) = ZOf(elements[f[l]])
                            /\ f[k] < f[l]

\* C26: what the editor shows is what gets exported: every element on a page
\* of the client document is rendered by generatePDF on the corresponding PDF
\* page, in ascending zIndex order (missing zIndex is 0), ties in insertion
\* order.
C26_ExportShowsAll ==
    (calc.fn = "editor" /\ calc.pdf.exported) =>
        /\ Len(calc.pdf.drawn) = Len(calc.pdf.document)
        /\ \A p \in DOMAIN calc.pdf.document :
              ShowsAllInZOrder(calc.pdf.document[p], calc.pdf.drawn[p])

\* ---------------------------------------------------------------------- C27
\* the caller is told the deduction was made
Accepted(r) ==
    \/ r.body = "return" /\ r.success
    \/ r.body = "result" /\ r.status = 200 /\ r.success

\* C27: a credit deduction never increases a balance: for every request to
\* /credits/deduct or call of deductCreditsAtomic that is accepted, one with a
\* negative or zero amount included, the user's stored balance afterwards is
\* less than or equal to the balance before.
C27_NeverIncreases ==
    [][\A p \in Procs :
         /\ IsSettle(p) /\ Moves(p) /\ pc'[p] = "done"
         /\ Accepted(resp'[p])
         => BalanceNext(req[p].user_id) <= pre[p].credits]_vars

\* ---------------------------------------------------------------------- C28
\* C28: purchased credits are never lost: when a webhook credit grant of g and
\* a settle of cost c (or a settle's compensating rollback) for the same user
\* interleave in any order, the final balance is initial + g - c for a
\* successful settle and initial + g for a failed one.
C28_GrantNeverLost ==
    \A p \in Procs : \A q \in Procs \ {p} :
        /\ GrantDelivered(p)
        /\ IsSettle(q) /\ pc[q] = "done"
        /\ req[q].user_id = req[p].user_id /\ req[q].amount > 0
        /\ ~hist[q].rollbackFailed
        => Balance(req[p].user_id) =
              initial[req[p].user_id] + CreditsToAdd(req[p].price)
                - (IF Accepted(resp[q]) THEN req[q].amount ELSE 0)

\* ---------------------------------------------------------------------- C29
\* C29: in the editor's save flow a document is stored only if the save was
\* charged: whenever saveDocument leaves a new pdf_documents row, the credit
\* deduction for that save succeeded, and whenever the deduction fails no
\* document row remains.
C29_StoredOnlyIfCharged ==
    calc.fn = "save" =>
        \A p \in Procs : pc[p] = "done" /\ calc.saved[p] => Accepted(resp[p])
====
